---------------------------- MODULE Spec2Model ----------------------------
(***************************************************************************)
(* A model of the spop crate (SPOP frame codec and the example agents).    *)
(*                                                                         *)
(* Representation.  A byte is a number in 0..255 and a byte slice is a     *)
(* sequence of bytes.  A Rust String is the sequence of its UTF-8 bytes.   *)
(* TLC's integers are 32 bits wide, so a Rust u64 (and every narrower      *)
(* unsigned type) is kept as its eight little-endian base-256 digits, and  *)
(* a signed integer as the digits of its two's-complement bit pattern;     *)
(* U64(n) builds the digits of a small number n.  Arithmetic on digits is  *)
(* done at the width of the Rust type.  Where the result of the code       *)
(* depends on whether the build checks arithmetic overflow, the operator   *)
(* takes the build profile ("debug": overflow panics, "release": it wraps) *)
(* as a parameter.                                                         *)
(*                                                                         *)
(* Three specifications.  Spec is one connection served by one of the two  *)
(* example agents, examples/agent_tcp.rs ("tcp") or examples/agent.rs      *)
(* ("unix"): a peer puts a sequence of frames on the connection and may    *)
(* close its end at any moment; the agent reads any number of the waiting  *)
(* bytes at a time and takes one step from one await to the next, so that  *)
(* an answer is built in one step and written, or not, in a later one.     *)
(* SpecCodec is the codec on its own: one frame is serialized or arrives   *)
(* from a peer, possibly only its first bytes, and is decoded.  SpecValues *)
(* is the value codecs on their own: varints, typed data and the payload   *)
(* of a HaproxyHello.                                                      *)
(***************************************************************************)
EXTENDS Integers, Sequences, FiniteSets, TLC

VARIABLES
    profile,  \* the build profile of the agent
    agent,    \* which example agent serves the connection: "tcp" or "unix"
    sent,     \* the frames the peer puts on the connection, in order
    wire,     \* the bytes of them the agent has not read yet
    partials, \* 1 once a read has ended inside a frame, 0 until then
    buffer,   \* the agent's read buffer
    pc,       \* the await the agent is at: "read", "decode", "send", "close", "write", "shutdown"
    conn,     \* the agent's socket: "open", "wshut" (write side shut) or "closed"
    exit,     \* how handle_connection ended, "running" until then
    out,      \* the frames the agent has written, in order
    log,      \* the inbound frames whose arm of the match has run
    peer,     \* the peer's end: "open", "closing", "gone" or "reset" (see PeerCloses)
    pending,  \* the inbound frame whose answer waits to be written, and the answer
    cin,      \* codec runs: the input, a frame or bytes
    cbytes,   \* codec runs: the bytes given to the decoder
    cpc,      \* codec runs: the step reached
    cres      \* codec runs: the result of the last step

vars ==
    <<profile, agent, sent, wire, partials, buffer, pc, conn, exit, out, log, peer, pending,
      cin, cbytes, cpc, cres>>

session_vars == <<agent, sent, wire, partials, buffer, pc, conn, exit, out, log, peer, pending>>
codec_vars == <<cin, cbytes, cpc, cres>>

Profiles == {"debug", "release"}

(***************************************************************************)
(* Fixed-width unsigned arithmetic on little-endian base-256 digits.       *)
(***************************************************************************)
Pow2(k) == 2 ^ k

RECURSIVE NatToDigits(_, _)
NatToDigits(n, k) ==
    IF k = 0 THEN <<>> ELSE <<n % 256>> \o NatToDigits(n \div 256, k - 1)

\* the u64 whose value is the small number n (0 <= n < 2^31)
U64(n) == NatToDigits(n, 8)

\* digit j of a, zero outside 1..8
Dig(a, j) == IF j >= 1 /\ j <= 8 THEN a[j] ELSE 0

RECURSIVE NumCmpFrom(_, _, _)
NumCmpFrom(a, b, i) ==
    IF i = 0 THEN 0
    ELSE IF a[i] < b[i] THEN -1
    ELSE IF a[i] > b[i] THEN 1
    ELSE NumCmpFrom(a, b, i - 1)

NumLt(a, b) == NumCmpFrom(a, b, 8) < 0
NumGe(a, b) == NumCmpFrom(a, b, 8) >= 0

RECURSIVE AddFrom(_, _, _, _)
AddFrom(a, b, i, c) ==
    IF i > 8 THEN <<c>>
    ELSE LET s == a[i] + b[i] + c
         IN  <<s % 256>> \o AddFrom(a, b, i + 1, s \div 256)

\* a + b modulo 2^64, and whether the exact sum needs more than 64 bits
WrappingAdd(a, b) == SubSeq(AddFrom(a, b, 1, 0), 1, 8)
AddOverflows(a, b) == AddFrom(a, b, 1, 0)[9] = 1

RECURSIVE SubFrom(_, _, _, _)
SubFrom(a, b, i, c) ==
    IF i > 8 THEN <<>>
    ELSE LET s == a[i] - b[i] - c
         IN  <<(s + 256) % 256>> \o SubFrom(a, b, i + 1, IF s < 0 THEN 1 ELSE 0)

\* a - b for a >= b
NumSub(a, b) == SubFrom(a, b, 1, 0)

\* a >> k and (a << k) modulo 2^64, for 0 <= k < 64
Shr(a, k) ==
    LET q == k \div 8
        r == k % 8
    IN  [j \in 1..8 |->
            ((Dig(a, j + q) \div Pow2(r)) + (Dig(a, j + q + 1) % Pow2(r)) * Pow2(8 - r)) % 256]

Shl(a, k) ==
    LET q == k \div 8
        r == k % 8
    IN  [j \in 1..8 |->
            (((Dig(a, j - q) * Pow2(r)) % 256) + (Dig(a, j - q - 1) \div Pow2(8 - r))) % 256]

\* a u64 that fits a TLC integer, and its value
IsSmall(a) == a[5] = 0 /\ a[6] = 0 /\ a[7] = 0 /\ a[8] = 0 /\ a[4] < 128
ToNat(a) == a[1] + 256 * a[2] + 65536 * a[3] + 16777216 * a[4]

\* `x as u32`: the low 32 bits
AsU32(a) == [j \in 1..8 |-> IF j <= 4 THEN a[j] ELSE 0]

\* `x as u64` of an i32 held as its 32-bit pattern: sign extension
SignExtend32(a) == [j \in 1..8 |-> IF j <= 4 THEN a[j] ELSE IF a[4] >= 128 THEN 255 ELSE 0]

\* u32::to_be_bytes
U32ToBeBytes(a) == <<a[4], a[3], a[2], a[1]>>

\* u32::from_be_bytes, widened to the digits of a u64
U32FromBeBytes(b) == <<b[4], b[3], b[2], b[1], 0, 0, 0, 0>>

\* `n as u32` of a usize length n < 2^31
LenAsU32(n) == U64(n)

(***************************************************************************)
(* nom results.  Ok carries the remaining input and the value; Incomplete  *)
(* is nom::Err::Incomplete, Error and Failure carry the ErrorKind; Panic   *)
(* is a Rust panic (the parser does not return).                           *)
(***************************************************************************)
Ok(rest, value) == [tag |-> "Ok", rest |-> rest, value |-> value]
Incomplete == [tag |-> "Incomplete"]
Error(kind) == [tag |-> "Error", kind |-> kind]
Failure(kind) == [tag |-> "Failure", kind |-> kind]
Panic == [tag |-> "Panic"]

Tail2(s, n) == SubSeq(s, n + 1, Len(s))

(***************************************************************************)
(* lib.rs: the varint codec                                                *)
(***************************************************************************)
RECURSIVE encode_varint_loop(_)
encode_varint_loop(i) ==
    IF NumGe(i, U64(128))
    THEN <<128 + (i[1] % 128)>> \o encode_varint_loop(Shr(NumSub(i, U64(128)), 7))
    ELSE <<i[1]>>

encode_varint(i) ==
    IF NumLt(i, U64(240))
    THEN <<i[1]>>
    ELSE <<240 + (i[1] % 16)>> \o encode_varint_loop(Shr(NumSub(i, U64(240)), 4))

\* One pass of `value += (next_byte as u64) << shift; shift += 7`.  A debug
\* build panics on a shift of 64 or more and on an overflowing add; a
\* release build masks the shift amount to six bits and wraps the sum.
VarintStepPanics(value, next_byte, shift, prof) ==
    /\ prof = "debug"
    /\ \/ shift >= 64
       \/ AddOverflows(value, Shl(U64(next_byte), shift))

\* VarintStep with only the low seven bits of the byte added
VarintStepSevenBits(value, next_byte, shift) ==
    WrappingAdd(value, Shl(U64(next_byte % 128), shift % 64))

VarintStep(value, next_byte, shift) ==
    WrappingAdd(value, Shl(U64(next_byte), shift % 64))

RECURSIVE decode_varint_loop(_, _, _, _)
decode_varint_loop(input, value, shift, prof) ==
    IF input = <<>> THEN Error("Eof")
    ELSE LET next_byte == Head(input)
         IN  IF VarintStepPanics(value, next_byte, shift, prof) THEN Panic
             ELSE IF next_byte < 128
                  THEN Ok(Tail(input), VarintStep(value, next_byte, shift))
                  ELSE decode_varint_loop(Tail(input), VarintStep(value, next_byte, shift),
                                          shift + 7, prof)

decode_varint(input, prof) ==
    IF input = <<>> THEN Error("Eof")
    ELSE IF Head(input) < 240 THEN Ok(Tail(input), U64(Head(input)))
    ELSE decode_varint_loop(Tail(input), U64(Head(input)), 4, prof)

(***************************************************************************)
(* UTF-8, as std validates it.  Utf8Scan(s, i) looks at the character that *)
(* starts at s[i]: ok with its length n, or not ok with the length n of    *)
(* the invalid run that from_utf8_lossy replaces by one U+FFFD.            *)
(***************************************************************************)
SafeGet(s, i) == IF i <= Len(s) THEN s[i] ELSE 0
IsCont(b) == b >= 128 /\ b <= 191

Utf8CharWidth(b) ==
    IF b < 128 THEN 1
    ELSE IF b >= 194 /\ b <= 223 THEN 2
    ELSE IF b >= 224 /\ b <= 239 THEN 3
    ELSE IF b >= 240 /\ b <= 244 THEN 4
    ELSE 0

Utf8Second3(b, c) ==
    \/ b = 224 /\ c >= 160 /\ c <= 191
    \/ b >= 225 /\ b <= 236 /\ IsCont(c)
    \/ b = 237 /\ c >= 128 /\ c <= 159
    \/ b >= 238 /\ b <= 239 /\ IsCont(c)

Utf8Second4(b, c) ==
    \/ b = 240 /\ c >= 144 /\ c <= 191
    \/ b >= 241 /\ b <= 243 /\ IsCont(c)
    \/ b = 244 /\ c >= 128 /\ c <= 143

Utf8Scan(s, i) ==
    LET b == s[i]
        w == Utf8CharWidth(b)
    IN  IF w = 1 THEN [ok |-> TRUE, n |-> 1]
        ELSE IF w = 2 THEN
            IF IsCont(SafeGet(s, i + 1)) THEN [ok |-> TRUE, n |-> 2] ELSE [ok |-> FALSE, n |-> 1]
        ELSE IF w = 3 THEN
            IF ~Utf8Second3(b, SafeGet(s, i + 1)) THEN [ok |-> FALSE, n |-> 1]
            ELSE IF ~IsCont(SafeGet(s, i + 2)) THEN [ok |-> FALSE, n |-> 2]
            ELSE [ok |-> TRUE, n |-> 3]
        ELSE IF w = 4 THEN
            IF ~Utf8Second4(b, SafeGet(s, i + 1)) THEN [ok |-> FALSE, n |-> 1]
            ELSE IF ~IsCont(SafeGet(s, i + 2)) THEN [ok |-> FALSE, n |-> 2]
            ELSE IF ~IsCont(SafeGet(s, i + 3)) THEN [ok |-> FALSE, n |-> 3]
            ELSE [ok |-> TRUE, n |-> 4]
        ELSE [ok |-> FALSE, n |-> 1]

RECURSIVE IsUtf8From(_, _)
IsUtf8From(s, i) ==
    IF i > Len(s) THEN TRUE
    ELSE LET c == Utf8Scan(s, i) IN c.ok /\ IsUtf8From(s, i + c.n)

\* String::from_utf8(bytes).is_ok()
IsUtf8(s) == IsUtf8From(s, 1)

RECURSIVE LossyFrom(_, _)
LossyFrom(s, i) ==
    IF i > Len(s) THEN <<>>
    ELSE LET c == Utf8Scan(s, i)
         IN  (IF c.ok THEN SubSeq(s, i, i + c.n - 1) ELSE <<239, 191, 189>>)
                 \o LossyFrom(s, i + c.n)

\* String::from_utf8_lossy(data).into_owned()
from_utf8_lossy(data) == LossyFrom(data, 1)

(***************************************************************************)
(* types.rs: TypedData.  An integer variant holds the digits of its bit    *)
(* pattern (Int32 and UInt32: 32 bits, the upper four digits zero), an     *)
(* address its octets, String and Binary their bytes.                      *)
(***************************************************************************)
TYPE_NULL == 0
TYPE_BOOL == 1
TYPE_INT32 == 2
TYPE_UINT32 == 3
TYPE_INT64 == 4
TYPE_UINT64 == 5
TYPE_IPV4 == 6
TYPE_IPV6 == 7
TYPE_STRING == 8
TYPE_BINARY == 9

Null == [t |-> "Null"]
Bool(val) == [t |-> "Bool", v |-> val]
Int32(val) == [t |-> "Int32", v |-> val]
UInt32(val) == [t |-> "UInt32", v |-> val]
Int64(val) == [t |-> "Int64", v |-> val]
UInt64(val) == [t |-> "UInt64", v |-> val]
IPv4(octets) == [t |-> "IPv4", v |-> octets]
IPv6(octets) == [t |-> "IPv6", v |-> octets]
String(val) == [t |-> "String", v |-> val]
Binary(val) == [t |-> "Binary", v |-> val]

\* TypedData::to_bytes: the bytes pushed on buf
to_bytes(self) ==
    CASE self.t = "Null" -> <<TYPE_NULL>>
      [] self.t = "Bool" -> <<(IF self.v THEN 1 ELSE 0) * 16 + TYPE_BOOL>>
      [] self.t = "Int32" -> <<TYPE_INT32>> \o encode_varint(SignExtend32(self.v))
      [] self.t = "UInt32" -> <<TYPE_UINT32>> \o encode_varint(self.v)
      [] self.t = "Int64" -> <<TYPE_INT64>> \o encode_varint(self.v)
      [] self.t = "UInt64" -> <<TYPE_UINT64>> \o encode_varint(self.v)
      [] self.t = "IPv4" -> <<TYPE_IPV4>> \o self.v
      [] self.t = "IPv6" -> <<TYPE_IPV6>> \o self.v
      [] self.t = "String" -> <<TYPE_STRING>> \o encode_varint(U64(Len(self.v))) \o self.v
      [] self.t = "Binary" -> <<TYPE_BINARY>> \o encode_varint(U64(Len(self.v))) \o self.v

\* `input.len() < length as usize` for a u64 length
LenBelow(input, length) == ~IsSmall(length) \/ Len(input) < ToNat(length)

\* `let (input, value) = parser(input)?; ...`: the rest of the function runs
\* on the remaining input and the value, anything but Ok is returned as it is
Bind(r, K(_, _)) == IF r.tag = "Ok" THEN K(r.rest, r.value) ELSE r

\* take(length) behind the check of the length against the input
take_checked(input, length) ==
    IF LenBelow(input, length) THEN Error("Eof")
    ELSE Ok(Tail2(input, ToNat(length)), SubSeq(input, 1, ToNat(length)))

\* the body of a String or Binary value, after its type byte
typed_bytes(input, type_id, prof) ==
    Bind(decode_varint(input, prof), LAMBDA i1, length :
    Bind(take_checked(i1, length), LAMBDA i2, data :
         IF type_id = TYPE_STRING THEN Ok(i2, String(from_utf8_lossy(data)))
         ELSE Ok(i2, Binary(data))))

MapValue(r, f(_)) == IF r.tag = "Ok" THEN Ok(r.rest, f(r.value)) ELSE r

\* AsInt32 without the truncation of `v as i32`
AsInt32Wide(v) == Int32(v)

AsInt32(v) == Int32(AsU32(v))

\* `v as u32` taken as keeping all 64 bits
AsUInt32Wide(v) == UInt32(v)

AsUInt32(v) == UInt32(AsU32(v))

typed_data(input, prof) ==
    IF input = <<>> THEN Error("Eof")
    ELSE LET type_and_flags == Head(input)
             rest == Tail(input)
             type_id == type_and_flags % 16
             flags == type_and_flags \div 16
         IN  CASE type_id = TYPE_NULL -> Ok(rest, Null)
               [] type_id = TYPE_BOOL -> Ok(rest, Bool(flags % 2 # 0))
               [] type_id = TYPE_INT32 -> MapValue(decode_varint(rest, prof), AsInt32)
               [] type_id = TYPE_UINT32 -> MapValue(decode_varint(rest, prof), AsUInt32)
               [] type_id = TYPE_INT64 -> MapValue(decode_varint(rest, prof), Int64)
               [] type_id = TYPE_UINT64 -> MapValue(decode_varint(rest, prof), UInt64)
               [] type_id = TYPE_IPV4 ->
                    IF Len(rest) < 4 THEN Error("Eof")
                    ELSE Ok(Tail2(rest, 4), IPv4(SubSeq(rest, 1, 4)))
               [] type_id = TYPE_IPV6 ->
                    IF Len(rest) < 16 THEN Error("Eof")
                    ELSE Ok(Tail2(rest, 16), IPv6(SubSeq(rest, 1, 16)))
               [] type_id = TYPE_STRING \/ type_id = TYPE_BINARY ->
                    typed_bytes(rest, type_id, prof)
               [] OTHER -> Error("Tag")

(***************************************************************************)
(* frame.rs: frame types, flags, metadata and payloads.  A frame is the    *)
(* record [frame_type, metadata |-> [flags, stream_id, frame_id], payload] *)
(* (parser.rs keeps the three metadata fields in the frame itself).  A     *)
(* payload is [kind |-> "KVList", items |-> the map of the pairs],         *)
(* [kind |-> "ListOfMessages", items |-> messages [name, args]] or         *)
(* [kind |-> "ListOfActions", items |-> actions].  frame.rs declares the   *)
(* KV-list over a Vec of pairs; every frame of frames/ builds it and reads *)
(* it as a std HashMap, and so it is kept here: a function from the keys   *)
(* to their values.  A HashMap is iterated in an order that differs from   *)
(* map to map, so what iterates one is given the order as a parameter.     *)
(* parser.rs returns the pairs it has parsed, as                           *)
(* FramePayload::KeyValuePairs: pairs that hold every key once are the     *)
(* KV-list of that map; pairs in which a key comes again are no map, and   *)
(* are [kind |-> "KeyValuePairs", items |-> the pairs in their order].     *)
(***************************************************************************)
FrameTypes ==
    {"HaproxyHello", "HaproxyDisconnect", "Notify", "AgentHello", "AgentDisconnect", "Ack"}

\* FrameType::from_u8
from_u8(value) ==
    CASE value = 1 -> [tag |-> "Ok", value |-> "HaproxyHello"]
      [] value = 2 -> [tag |-> "Ok", value |-> "HaproxyDisconnect"]
      [] value = 3 -> [tag |-> "Ok", value |-> "Notify"]
      [] value = 101 -> [tag |-> "Ok", value |-> "AgentHello"]
      [] value = 102 -> [tag |-> "Ok", value |-> "AgentDisconnect"]
      [] value = 103 -> [tag |-> "Ok", value |-> "Ack"]
      [] OTHER -> [tag |-> "Err", kind |-> "Alt"]

\* FrameType::to_u8
to_u8(self) ==
    CASE self = "HaproxyHello" -> 1
      [] self = "HaproxyDisconnect" -> 2
      [] self = "Notify" -> 3
      [] self = "AgentHello" -> 101
      [] self = "AgentDisconnect" -> 102
      [] self = "Ack" -> 103

VarScopes == {"Process", "Session", "Transaction", "Request", "Response"}

\* VarScope::to_u8
scope_to_u8(self) ==
    CASE self = "Process" -> 0
      [] self = "Session" -> 1
      [] self = "Transaction" -> 2
      [] self = "Request" -> 3
      [] self = "Response" -> 4

SetVar(scope, name, value) == [a |-> "SetVar", scope |-> scope, name |-> name, value |-> value]
UnSetVar(scope, name) == [a |-> "UnSetVar", scope |-> scope, name |-> name]

\* FrameFlags::new
FrameFlags_new(is_fin, is_abort) ==
    U64((IF is_fin THEN 1 ELSE 0) + (IF is_abort THEN 2 ELSE 0))

\* FrameFlags::is_fin, FrameFlags::is_abort
is_fin(flags) == flags[1] % 2 = 1
is_abort(flags) == (flags[1] \div 2) % 2 = 1

\* FrameFlags::from_u32: FIN must be set, bits 2..31 must be clear
from_u32(value) ==
    IF value[1] % 2 = 0 THEN [tag |-> "Err", kind |-> "Verify"]
    ELSE IF (value[1] \div 4) # 0 \/ value[2] # 0 \/ value[3] # 0 \/ value[4] # 0
         THEN [tag |-> "Err", kind |-> "Alt"]
         ELSE [tag |-> "Ok", value |-> value]

Metadata(flags, stream_id, frame_id) ==
    [flags |-> flags, stream_id |-> stream_id, frame_id |-> frame_id]

\* HashMap::new
HashMap_new == <<>>

\* HashMap::keys
keys(map) == IF map = HashMap_new THEN {} ELSE DOMAIN map

\* HashMap::insert: a value already held under the key is replaced
insert(map, key, value) ==
    [k \in keys(map) \cup {key} |-> IF k = key THEN value ELSE map[k]]

\* HashMap::from(pairs): the map of the pairs, a later pair replacing an
\* earlier one of the same key
RECURSIVE collect(_)
collect(pairs) ==
    IF pairs = <<>> THEN HashMap_new
    ELSE insert(collect(SubSeq(pairs, 1, Len(pairs) - 1)),
                pairs[Len(pairs)][1], pairs[Len(pairs)][2])

\* the sequences that hold every element of the set once
RECURSIVE orders(_)
orders(set) ==
    IF set = {} THEN {<<>>}
    ELSE UNION {{<<k>> \o o : o \in orders(set \ {k})} : k \in set}

\* HashMap::into_iter: the pairs <<key, value>> of the map, in any order
into_iter(map) == {[i \in 1..Len(o) |-> <<o[i], map[o[i]]>>] : o \in orders(keys(map))}

KVList(items) == [kind |-> "KVList", items |-> items]

\* FramePayload::KeyValuePairs(pairs) of parser.rs: the pairs as parsed, all
\* of them, in their order; with every key once they are the KV-list that
\* holds them
KeyValuePairs(pairs) ==
    IF \A i, j \in 1..Len(pairs) : pairs[i][1] = pairs[j][1] => i = j
    THEN KVList(collect(pairs))
    ELSE [kind |-> "KeyValuePairs", items |-> pairs]
ListOfMessages(items) == [kind |-> "ListOfMessages", items |-> items]
ListOfActions(items) == [kind |-> "ListOfActions", items |-> items]
Message(name, args) == [name |-> name, args |-> args]

\* Frame::new
Frame(frame_type, metadata, payload) ==
    [frame_type |-> frame_type, metadata |-> metadata, payload |-> payload]

\* Metadata::serialize
metadata_serialize(self) ==
    U32ToBeBytes(self.flags) \o encode_varint(self.stream_id) \o encode_varint(self.frame_id)

\* the bytes Frame::serialize writes for a value of a KV pair or of a set-var:
\* the String and UInt32 arms; every other variant writes nothing
serialize_value(value) ==
    CASE value.t = "String" -> <<8>> \o encode_varint(U64(Len(value.v))) \o value.v
      [] value.t = "UInt32" -> <<3>> \o encode_varint(value.v)
      [] OTHER -> <<>>

\* one action of a LIST-OF-ACTIONS; the UnSetVar arm is todo!()
serialize_action(action) ==
    IF action.a = "SetVar"
    THEN [tag |-> "Ok",
          value |-> <<1, 3, scope_to_u8(action.scope)>>
                        \o encode_varint(U64(Len(action.name))) \o action.name
                        \o serialize_value(action.value)]
    ELSE Panic

\* a function of the bytes of an Ok result
MapBytes(r, f(_)) == IF r.tag = "Ok" THEN [tag |-> "Ok", value |-> f(r.value)] ELSE r

\* the bytes of two parts of a frame one after the other, or the panic of one
Concat(a, b) ==
    IF a.tag # "Ok" THEN a
    ELSE IF b.tag # "Ok" THEN b
    ELSE [tag |-> "Ok", value |-> a.value \o b.value]

RECURSIVE serialize_actions(_)
serialize_actions(actions) ==
    IF actions = <<>> THEN [tag |-> "Ok", value |-> <<>>]
    ELSE Concat(serialize_action(Head(actions)), serialize_actions(Tail(actions)))

RECURSIVE serialize_kv_pairs(_)
serialize_kv_pairs(kv_pairs) ==
    IF kv_pairs = <<>> THEN <<>>
    ELSE encode_varint(U64(Len(Head(kv_pairs)[1]))) \o Head(kv_pairs)[1]
             \o serialize_value(Head(kv_pairs)[2]) \o serialize_kv_pairs(Tail(kv_pairs))

\* the orders in which Frame::serialize can find the pairs of the payload
payload_orders(payload) == IF payload.kind = "KVList" THEN into_iter(payload.items) ELSE {<<>>}

\* the match on the payload; kv_pairs are the pairs of a KV-list in the
\* order in which the loop over the map finds them
serialize_payload(payload, kv_pairs) ==
    CASE payload.kind = "ListOfMessages" -> [tag |-> "Ok", value |-> <<1>>]
      [] payload.kind = "ListOfActions" -> serialize_actions(payload.items)
      [] payload.kind = "KVList" -> [tag |-> "Ok", value |-> serialize_kv_pairs(kv_pairs)]

\* the frame length put before the serialized frame
prepend_length(serialized) == U32ToBeBytes(LenAsU32(Len(serialized))) \o serialized

\* Frame::serialize: Ok with the bytes written, or a panic
serialize(self, kv_pairs) ==
    MapBytes(Concat([tag |-> "Ok",
                     value |-> <<to_u8(self.frame_type)>> \o metadata_serialize(self.metadata)],
                    serialize_payload(self.payload, kv_pairs)),
             prepend_length)

(***************************************************************************)
(* parser.rs                                                               *)
(***************************************************************************)
\* nom::number::streaming::be_u8, be_u32 and be_u64
be_u8(input) == IF Len(input) < 1 THEN Incomplete ELSE Ok(Tail(input), Head(input))
be_u32(input) ==
    IF Len(input) < 4 THEN Incomplete
    ELSE Ok(Tail2(input, 4), U32FromBeBytes(SubSeq(input, 1, 4)))
be_u64(input) ==
    IF Len(input) < 8 THEN Incomplete
    ELSE Ok(Tail2(input, 8), [j \in 1..8 |-> input[9 - j]])

\* nom::combinator::all_consuming and complete, applied to a result
all_consuming(r) == IF r.tag = "Ok" /\ r.rest # <<>> THEN Error("Eof") ELSE r
complete(r) == IF r.tag = "Incomplete" THEN Error("Complete") ELSE r

RECURSIVE parse_varint_loop(_, _, _, _)
parse_varint_loop(input, value, shift, prof) ==
    IF input = <<>> THEN Incomplete
    ELSE LET next_byte == Head(input)
         IN  IF VarintStepPanics(value, next_byte, shift, prof) THEN Panic
             ELSE IF next_byte < 128
                  THEN Ok(Tail(input), VarintStep(value, next_byte, shift))
                  ELSE parse_varint_loop(Tail(input), VarintStep(value, next_byte, shift),
                                         shift + 7, prof)

parse_varint(input, prof) ==
    IF input = <<>> THEN Incomplete
    ELSE IF Head(input) < 240 THEN Ok(Tail(input), U64(Head(input)))
    ELSE parse_varint_loop(Tail(input), U64(Head(input)), 4, prof)

parse_boolean_from_flags(flags) == flags % 2 # 0

\* the 8 | 9 arm of parse_typed_data
parse_typed_bytes(input, type_id, prof) ==
    Bind(parse_varint(input, prof), LAMBDA i1, length :
    Bind(take_checked(i1, length), LAMBDA i2, data :
         IF type_id = 8 THEN Ok(i2, String(from_utf8_lossy(data))) ELSE Ok(i2, Binary(data))))

parse_typed_data(input, prof) ==
    IF input = <<>> THEN Error("Eof")
    ELSE LET type_and_flags == Head(input)
             rest == Tail(input)
             type_id == type_and_flags \div 16
             flags == type_and_flags % 16
         IN  CASE type_id = 0 -> Ok(rest, Null)
               [] type_id = 1 -> Ok(rest, Bool(flags % 2 # 0))
               [] type_id = 2 -> MapValue(parse_varint(rest, prof), AsInt32)
               [] type_id = 3 -> MapValue(parse_varint(rest, prof), AsUInt32)
               [] type_id = 4 -> MapValue(parse_varint(rest, prof), Int64)
               [] type_id = 5 -> MapValue(parse_varint(rest, prof), UInt64)
               [] type_id = 6 ->
                    IF Len(rest) < 4 THEN Error("Eof")
                    ELSE Ok(Tail2(rest, 4), IPv4(SubSeq(rest, 1, 4)))
               [] type_id = 7 ->
                    IF Len(rest) < 16 THEN Error("Eof")
                    ELSE Ok(Tail2(rest, 16), IPv6(SubSeq(rest, 1, 16)))
               [] type_id = 8 \/ type_id = 9 -> parse_typed_bytes(rest, type_id, prof)
               [] OTHER -> Error("Tag")

parse_string(input, prof) ==
    Bind(parse_varint(input, prof), LAMBDA i1, length :
    Bind(take_checked(i1, length), LAMBDA i2, bytes :
         IF IsUtf8(bytes) THEN Ok(i2, bytes) ELSE Error("Tag")))

parse_key_value_pair(input, prof) ==
    Bind(parse_string(input, prof), LAMBDA i1, key :
    Bind(parse_typed_data(i1, prof), LAMBDA i2, value : Ok(i2, <<key, value>>)))

\* many0(complete(parse_key_value_pair)): pairs until the first Error; r is
\* the result of the parser on the input
RECURSIVE many0_pairs(_, _, _)
RECURSIVE many0_next(_, _, _, _)
many0_next(input, acc, prof, r) ==
    IF r.tag = "Error" THEN Ok(input, acc)
    ELSE IF r.tag # "Ok" THEN r
    ELSE IF Len(r.rest) = Len(input) THEN Error("Many0")
    ELSE many0_pairs(r.rest, Append(acc, r.value), prof)
many0_pairs(input, acc, prof) ==
    many0_next(input, acc, prof, complete(parse_key_value_pair(input, prof)))

parse_key_value_pairs(input, prof) ==
    Bind(all_consuming(many0_pairs(input, <<>>, prof)), LAMBDA i1, pairs : Ok(i1, KeyValuePairs(pairs)))

parse_argument(input, prof) ==
    Bind(parse_string(input, prof), LAMBDA i1, name :
    Bind(parse_typed_data(i1, prof), LAMBDA i2, value : Ok(i2, <<name, value>>)))

\* how often count(parser, n) can run a parser that consumes input each time:
\* n times, and never more often than the input has bytes left, plus the
\* run that fails
CountRuns(input, n) == IF IsSmall(n) /\ ToNat(n) <= Len(input) THEN ToNat(n) ELSE Len(input) + 1

\* count(parse_argument, n)
RECURSIVE count_arguments(_, _, _, _)
count_arguments(input, n, acc, prof) ==
    IF n = 0 THEN Ok(input, acc)
    ELSE Bind(parse_argument(input, prof), LAMBDA i1, argument :
              count_arguments(i1, n - 1, Append(acc, argument), prof))

parse_message_data(input, prof) ==
    Bind(parse_string(input, prof), LAMBDA i1, name :
    Bind(be_u32(i1), LAMBDA i2, num_args :
    Bind(count_arguments(i2, CountRuns(i2, num_args), <<>>, prof), LAMBDA i3, args :
         Ok(i3, Message(name, args)))))

parse_single_message(input, prof) ==
    Bind(be_u64(input), LAMBDA i1, message_length :
    Bind(take_checked(i1, message_length), LAMBDA i2, message_data :
    Bind(all_consuming(parse_message_data(message_data, prof)), LAMBDA remaining, message :
         Ok(i2, message))))

\* count(parse_single_message, n)
RECURSIVE count_messages(_, _, _, _)
count_messages(input, n, acc, prof) ==
    IF n = 0 THEN Ok(input, acc)
    ELSE Bind(parse_single_message(input, prof), LAMBDA i1, message :
              count_messages(i1, n - 1, Append(acc, message), prof))

parse_list_of_messages(input, prof) ==
    Bind(be_u32(input), LAMBDA i1, num_messages :
    Bind(count_messages(i1, CountRuns(i1, num_messages), <<>>, prof), LAMBDA i2, messages :
         Ok(i2, ListOfMessages(messages))))

\* the match on the frame type in parse_frame
parse_payload(frame_type, frame_payload, prof) ==
    IF frame_type.tag = "Ok" /\ frame_type.value \in {"HaproxyHello", "HaproxyDisconnect"}
    THEN all_consuming(parse_key_value_pairs(frame_payload, prof))
    ELSE IF frame_type.tag = "Ok" /\ frame_type.value = "Notify"
    THEN all_consuming(parse_list_of_messages(frame_payload, prof))
    ELSE Failure("Tag")

\* parse_frame on the frame body, remaining being the input behind it
parse_frame_body(remaining, frame, prof) ==
    Bind(be_u8(frame), LAMBDA f1, frame_type_byte :
    Bind(be_u32(f1), LAMBDA f2, flags :
    Bind(parse_varint(f2, prof), LAMBDA f3, stream_id :
    Bind(parse_varint(f3, prof), LAMBDA frame_payload, frame_id :
    Bind(parse_payload(from_u8(frame_type_byte), frame_payload, prof), LAMBDA f5, payload :
         Ok(remaining, Frame(from_u8(frame_type_byte).value,
                             Metadata(flags, stream_id, frame_id), payload)))))))

parse_frame(input, prof) ==
    Bind(be_u32(input), LAMBDA i1, frame_length :
    Bind(take_checked(i1, frame_length), LAMBDA remaining, frame :
         parse_frame_body(remaining, frame, prof)))

(***************************************************************************)
(* codec.rs: SpopCodec                                                     *)
(***************************************************************************)
\* decode_result with the buffer cleared when more bytes are needed
decode_result_clearing(src, r) ==
    CASE r.tag = "Ok" -> [tag |-> "Some", frame |-> r.value, src |-> r.rest]
      [] r.tag = "Incomplete" -> [tag |-> "None", src |-> <<>>]
      [] r.tag = "Panic" -> [tag |-> "Panic", src |-> src]
      [] OTHER -> [tag |-> "Err", src |-> src]

\* the match of Decoder::decode on the result r of parse_frame(src)
decode_result(src, r) ==
    CASE r.tag = "Ok" -> [tag |-> "Some", frame |-> r.value, src |-> r.rest]
      [] r.tag = "Incomplete" -> [tag |-> "None", src |-> src]
      [] r.tag = "Panic" -> [tag |-> "Panic", src |-> src]
      [] OTHER -> [tag |-> "Err", src |-> src]

\* Decoder::decode: the outcome and the buffer left in src
decode(src, prof) == decode_result(src, parse_frame(src, prof))

\* Encoder::encode on the result of frame.serialize()
encode_result(serialized, dst) ==
    IF serialized.tag = "Ok" THEN [tag |-> "Ok", dst |-> dst \o serialized.value]
    ELSE [tag |-> serialized.tag, dst |-> dst]

\* Encoder::encode: the outcome and the bytes put on dst
encode(frame, kv_pairs, dst) == encode_result(serialize(frame, kv_pairs), dst)

(***************************************************************************)
(* Strings are sequences of UTF-8 bytes.  The string literals of the       *)
(* frames and of the two example agents:                                   *)
(***************************************************************************)
str_version == <<118, 101, 114, 115, 105, 111, 110>>  \* "version"
str_max_frame_size == <<109, 97, 120, 45, 102, 114, 97, 109, 101, 45, 115, 105, 122, 101>>  \* "max-frame-size"
str_capabilities == <<99, 97, 112, 97, 98, 105, 108, 105, 116, 105, 101, 115>>  \* "capabilities"
str_status_code == <<115, 116, 97, 116, 117, 115, 45, 99, 111, 100, 101>>  \* "status-code"
str_message == <<109, 101, 115, 115, 97, 103, 101>>  \* "message"
str_supported_versions == <<115, 117, 112, 112, 111, 114, 116, 101, 100, 45, 118, 101, 114, 115, 105, 111, 110, 115>>  \* "supported-versions"
str_healthcheck == <<104, 101, 97, 108, 116, 104, 99, 104, 101, 99, 107>>  \* "healthcheck"
str_engine_id == <<101, 110, 103, 105, 110, 101, 45, 105, 100>>  \* "engine-id"
str_pipelining == <<112, 105, 112, 101, 108, 105, 110, 105, 110, 103>>  \* "pipelining"
str_check_client_ip == <<99, 104, 101, 99, 107, 45, 99, 108, 105, 101, 110, 116, 45, 105, 112>>  \* "check-client-ip"
str_ip_score == <<105, 112, 95, 115, 99, 111, 114, 101>>  \* "ip_score"
str_log_request == <<108, 111, 103, 45, 114, 101, 113, 117, 101, 115, 116>>  \* "log-request"
str_my_var == <<109, 121, 95, 118, 97, 114>>  \* "my_var"
str_tequila == <<116, 101, 113, 117, 105, 108, 97>>  \* "tequila"
str_Goodbye == <<71, 111, 111, 100, 98, 121, 101>>  \* "Goodbye"
str_2_0_0 == <<50, 46, 48, 46, 48>>  \* "2.0.0"
str_2_0 == <<50, 46, 48>>  \* "2.0"
str_dot_0 == <<46, 48>>  \* ".0"
str_u64_max == <<49, 56, 52, 52, 54, 55, 52, 52, 48, 55, 51, 55, 48, 57, 53, 53, 49, 54, 49, 53>>  \* "18446744073709551615"

\* str::split(','): the pieces between the commas, at least one piece
RECURSIVE split_from(_, _, _)
split_from(s, i, piece) ==
    IF i > Len(s) THEN <<piece>>
    ELSE IF s[i] = 44 THEN <<piece>> \o split_from(s, i + 1, <<>>)
    ELSE split_from(s, i + 1, Append(piece, s[i]))
split(s) == split_from(s, 1, <<>>)

\* the width in bytes of the White_Space character that starts at s[i], 0 if none
WhiteWidthAt(s, i) ==
    LET b0 == SafeGet(s, i)
        b1 == SafeGet(s, i + 1)
        b2 == SafeGet(s, i + 2)
    IN  CASE (b0 >= 9 /\ b0 <= 13) \/ b0 = 32 -> 1
          [] b0 = 194 /\ (b1 = 133 \/ b1 = 160) -> 2
          [] b0 = 225 /\ b1 = 154 /\ b2 = 128 -> 3
          [] b0 = 226 /\ b1 = 128 /\ ((b2 >= 128 /\ b2 <= 138) \/ b2 \in {168, 169, 175}) -> 3
          [] b0 = 226 /\ b1 = 129 /\ b2 = 159 -> 3
          [] b0 = 227 /\ b1 = 128 /\ b2 = 128 -> 3
          [] OTHER -> 0

\* the width of the White_Space character that ends at s[Len(s)], 0 if none
WhiteWidthAtEnd(s) ==
    LET n == Len(s)
    IN  CASE n >= 1 /\ s[n] < 128 /\ WhiteWidthAt(s, n) = 1 -> 1
          [] n >= 2 /\ WhiteWidthAt(s, n - 1) = 2 -> 2
          [] n >= 3 /\ WhiteWidthAt(s, n - 2) = 3 -> 3
          [] OTHER -> 0

RECURSIVE trim_start(_)
trim_start(s) ==
    IF s # <<>> /\ WhiteWidthAt(s, 1) > 0 THEN trim_start(Tail2(s, WhiteWidthAt(s, 1))) ELSE s
RECURSIVE trim_end(_)
trim_end(s) ==
    IF s # <<>> /\ WhiteWidthAtEnd(s) > 0
    THEN trim_end(SubSeq(s, 1, Len(s) - WhiteWidthAtEnd(s))) ELSE s
\* str::trim
trim(s) == trim_end(trim_start(s))

\* str::matches('.').count()
RECURSIVE count_dots(_)
count_dots(s) ==
    IF s = <<>> THEN 0 ELSE (IF Head(s) = 46 THEN 1 ELSE 0) + count_dots(Tail(s))

\* str::to_lowercase.  The tables are those of Unicode 17.0.  A character is
\* the number of its code point.
\* the characters of a string
RECURSIVE chars(_)
chars(s) ==
    IF s = <<>> THEN <<>>
    ELSE IF s[1] < 128 THEN <<s[1]>> \o chars(Tail2(s, 1))
    ELSE IF s[1] < 224
    THEN <<(s[1] - 192) * 64 + (SafeGet(s, 2) % 64)>> \o chars(Tail2(s, 2))
    ELSE IF s[1] < 240
    THEN <<(s[1] - 224) * 4096 + (SafeGet(s, 2) % 64) * 64 + (SafeGet(s, 3) % 64)>>
             \o chars(Tail2(s, 3))
    ELSE <<(s[1] - 240) * 262144 + (SafeGet(s, 2) % 64) * 4096 + (SafeGet(s, 3) % 64) * 64
               + (SafeGet(s, 4) % 64)>> \o chars(Tail2(s, 4))

\* String::push: the UTF-8 bytes of a character
encode_utf8(c) ==
    IF c < 128 THEN <<c>>
    ELSE IF c < 2048 THEN <<192 + (c \div 64), 128 + (c % 64)>>
    ELSE IF c < 65536 THEN <<224 + (c \div 4096), 128 + ((c \div 64) % 64), 128 + (c % 64)>>
    ELSE <<240 + (c \div 262144), 128 + ((c \div 4096) % 64), 128 + ((c \div 64) % 64),
           128 + (c % 64)>>

\* the characters with a lowercase mapping of one character: <<first, last,
\* step, difference>> stands for the characters first, first + step, ..,
\* last, each mapped to itself plus the difference
LowercaseRanges ==
    <<<<65, 90, 1, 32>>, <<192, 214, 1, 32>>, <<216, 222, 1, 32>>, <<256, 302, 2, 1>>, <<306, 310,
      2, 1>>, <<313, 327, 2, 1>>, <<330, 374, 2, 1>>, <<376, 376, 1, -121>>, <<377, 381, 2, 1>>,
      <<385, 385, 1, 210>>, <<386, 388, 2, 1>>, <<390, 390, 1, 206>>, <<391, 391, 1, 1>>, <<393,
      394, 1, 205>>, <<395, 395, 1, 1>>, <<398, 398, 1, 79>>, <<399, 399, 1, 202>>, <<400, 400, 1,
      203>>, <<401, 401, 1, 1>>, <<403, 403, 1, 205>>, <<404, 404, 1, 207>>, <<406, 406, 1, 211>>,
      <<407, 407, 1, 209>>, <<408, 408, 1, 1>>, <<412, 412, 1, 211>>, <<413, 413, 1, 213>>, <<415,
      415, 1, 214>>, <<416, 420, 2, 1>>, <<422, 422, 1, 218>>, <<423, 423, 1, 1>>, <<425, 425, 1,
      218>>, <<428, 428, 1, 1>>, <<430, 430, 1, 218>>, <<431, 431, 1, 1>>, <<433, 434, 1, 217>>,
      <<435, 437, 2, 1>>, <<439, 439, 1, 219>>, <<440, 440, 1, 1>>, <<444, 444, 1, 1>>, <<452,
      452, 1, 2>>, <<453, 453, 1, 1>>, <<455, 455, 1, 2>>, <<456, 456, 1, 1>>, <<458, 458, 1, 2>>,
      <<459, 475, 2, 1>>, <<478, 494, 2, 1>>, <<497, 497, 1, 2>>, <<498, 500, 2, 1>>, <<502, 502,
      1, -97>>, <<503, 503, 1, -56>>, <<504, 542, 2, 1>>, <<544, 544, 1, -130>>, <<546, 562, 2,
      1>>, <<570, 570, 1, 10795>>, <<571, 571, 1, 1>>, <<573, 573, 1, -163>>, <<574, 574, 1,
      10792>>, <<577, 577, 1, 1>>, <<579, 579, 1, -195>>, <<580, 580, 1, 69>>, <<581, 581, 1,
      71>>, <<582, 590, 2, 1>>, <<880, 882, 2, 1>>, <<886, 886, 1, 1>>, <<895, 895, 1, 116>>,
      <<902, 902, 1, 38>>, <<904, 906, 1, 37>>, <<908, 908, 1, 64>>, <<910, 911, 1, 63>>, <<913,
      929, 1, 32>>, <<931, 939, 1, 32>>, <<975, 975, 1, 8>>, <<984, 1006, 2, 1>>, <<1012, 1012, 1,
      -60>>, <<1015, 1015, 1, 1>>, <<1017, 1017, 1, -7>>, <<1018, 1018, 1, 1>>, <<1021, 1023, 1,
      -130>>, <<1024, 1039, 1, 80>>, <<1040, 1071, 1, 32>>, <<1120, 1152, 2, 1>>, <<1162, 1214, 2,
      1>>, <<1216, 1216, 1, 15>>, <<1217, 1229, 2, 1>>, <<1232, 1326, 2, 1>>, <<1329, 1366, 1,
      48>>, <<4256, 4293, 1, 7264>>, <<4295, 4295, 1, 7264>>, <<4301, 4301, 1, 7264>>, <<5024,
      5103, 1, 38864>>, <<5104, 5109, 1, 8>>, <<7305, 7305, 1, 1>>, <<7312, 7354, 1, -3008>>,
      <<7357, 7359, 1, -3008>>, <<7680, 7828, 2, 1>>, <<7838, 7838, 1, -7615>>, <<7840, 7934, 2,
      1>>, <<7944, 7951, 1, -8>>, <<7960, 7965, 1, -8>>, <<7976, 7983, 1, -8>>, <<7992, 7999, 1,
      -8>>, <<8008, 8013, 1, -8>>, <<8025, 8031, 2, -8>>, <<8040, 8047, 1, -8>>, <<8072, 8079, 1,
      -8>>, <<8088, 8095, 1, -8>>, <<8104, 8111, 1, -8>>, <<8120, 8121, 1, -8>>, <<8122, 8123, 1,
      -74>>, <<8124, 8124, 1, -9>>, <<8136, 8139, 1, -86>>, <<8140, 8140, 1, -9>>, <<8152, 8153,
      1, -8>>, <<8154, 8155, 1, -100>>, <<8168, 8169, 1, -8>>, <<8170, 8171, 1, -112>>, <<8172,
      8172, 1, -7>>, <<8184, 8185, 1, -128>>, <<8186, 8187, 1, -126>>, <<8188, 8188, 1, -9>>,
      <<8486, 8486, 1, -7517>>, <<8490, 8490, 1, -8383>>, <<8491, 8491, 1, -8262>>, <<8498, 8498,
      1, 28>>, <<8544, 8559, 1, 16>>, <<8579, 8579, 1, 1>>, <<9398, 9423, 1, 26>>, <<11264, 11311,
      1, 48>>, <<11360, 11360, 1, 1>>, <<11362, 11362, 1, -10743>>, <<11363, 11363, 1, -3814>>,
      <<11364, 11364, 1, -10727>>, <<11367, 11371, 2, 1>>, <<11373, 11373, 1, -10780>>, <<11374,
      11374, 1, -10749>>, <<11375, 11375, 1, -10783>>, <<11376, 11376, 1, -10782>>, <<11378,
      11378, 1, 1>>, <<11381, 11381, 1, 1>>, <<11390, 11391, 1, -10815>>, <<11392, 11490, 2, 1>>,
      <<11499, 11501, 2, 1>>, <<11506, 11506, 1, 1>>, <<42560, 42604, 2, 1>>, <<42624, 42650, 2,
      1>>, <<42786, 42798, 2, 1>>, <<42802, 42862, 2, 1>>, <<42873, 42875, 2, 1>>, <<42877, 42877,
      1, -35332>>, <<42878, 42886, 2, 1>>, <<42891, 42891, 1, 1>>, <<42893, 42893, 1, -42280>>,
      <<42896, 42898, 2, 1>>, <<42902, 42920, 2, 1>>, <<42922, 42922, 1, -42308>>, <<42923, 42923,
      1, -42319>>, <<42924, 42924, 1, -42315>>, <<42925, 42925, 1, -42305>>, <<42926, 42926, 1,
      -42308>>, <<42928, 42928, 1, -42258>>, <<42929, 42929, 1, -42282>>, <<42930, 42930, 1,
      -42261>>, <<42931, 42931, 1, 928>>, <<42932, 42946, 2, 1>>, <<42948, 42948, 1, -48>>,
      <<42949, 42949, 1, -42307>>, <<42950, 42950, 1, -35384>>, <<42951, 42953, 2, 1>>, <<42955,
      42955, 1, -42343>>, <<42956, 42970, 2, 1>>, <<42972, 42972, 1, -42561>>, <<42997, 42997, 1,
      1>>, <<65313, 65338, 1, 32>>, <<66560, 66599, 1, 40>>, <<66736, 66771, 1, 40>>, <<66928,
      66938, 1, 39>>, <<66940, 66954, 1, 39>>, <<66956, 66962, 1, 39>>, <<66964, 66965, 1, 39>>,
      <<68736, 68786, 1, 64>>, <<68944, 68965, 1, 32>>, <<71840, 71871, 1, 32>>, <<93760, 93791,
      1, 32>>, <<93856, 93880, 1, 27>>, <<125184, 125217, 1, 34>>>>

\* the characters with the property Case_Ignorable, as <<first, last>>
CaseIgnorableRanges ==
    <<<<39, 39>>, <<46, 46>>, <<58, 58>>, <<94, 94>>, <<96, 96>>, <<168, 168>>, <<173, 173>>,
      <<175, 175>>, <<180, 180>>, <<183, 184>>, <<688, 879>>, <<884, 885>>, <<890, 890>>, <<900,
      901>>, <<903, 903>>, <<1155, 1161>>, <<1369, 1369>>, <<1375, 1375>>, <<1425, 1469>>, <<1471,
      1471>>, <<1473, 1474>>, <<1476, 1477>>, <<1479, 1479>>, <<1524, 1524>>, <<1536, 1541>>,
      <<1552, 1562>>, <<1564, 1564>>, <<1600, 1600>>, <<1611, 1631>>, <<1648, 1648>>, <<1750,
      1757>>, <<1759, 1768>>, <<1770, 1773>>, <<1807, 1807>>, <<1809, 1809>>, <<1840, 1866>>,
      <<1958, 1968>>, <<2027, 2037>>, <<2042, 2042>>, <<2045, 2045>>, <<2070, 2093>>, <<2137,
      2139>>, <<2184, 2184>>, <<2192, 2193>>, <<2199, 2207>>, <<2249, 2306>>, <<2362, 2362>>,
      <<2364, 2364>>, <<2369, 2376>>, <<2381, 2381>>, <<2385, 2391>>, <<2402, 2403>>, <<2417,
      2417>>, <<2433, 2433>>, <<2492, 2492>>, <<2497, 2500>>, <<2509, 2509>>, <<2530, 2531>>,
      <<2558, 2558>>, <<2561, 2562>>, <<2620, 2620>>, <<2625, 2626>>, <<2631, 2632>>, <<2635,
      2637>>, <<2641, 2641>>, <<2672, 2673>>, <<2677, 2677>>, <<2689, 2690>>, <<2748, 2748>>,
      <<2753, 2757>>, <<2759, 2760>>, <<2765, 2765>>, <<2786, 2787>>, <<2810, 2815>>, <<2817,
      2817>>, <<2876, 2876>>, <<2879, 2879>>, <<2881, 2884>>, <<2893, 2893>>, <<2901, 2902>>,
      <<2914, 2915>>, <<2946, 2946>>, <<3008, 3008>>, <<3021, 3021>>, <<3072, 3072>>, <<3076,
      3076>>, <<3132, 3132>>, <<3134, 3136>>, <<3142, 3144>>, <<3146, 3149>>, <<3157, 3158>>,
      <<3170, 3171>>, <<3201, 3201>>, <<3260, 3260>>, <<3263, 3263>>, <<3270, 3270>>, <<3276,
      3277>>, <<3298, 3299>>, <<3328, 3329>>, <<3387, 3388>>, <<3393, 3396>>, <<3405, 3405>>,
      <<3426, 3427>>, <<3457, 3457>>, <<3530, 3530>>, <<3538, 3540>>, <<3542, 3542>>, <<3633,
      3633>>, <<3636, 3642>>, <<3654, 3662>>, <<3761, 3761>>, <<3764, 3772>>, <<3782, 3782>>,
      <<3784, 3790>>, <<3864, 3865>>, <<3893, 3893>>, <<3895, 3895>>, <<3897, 3897>>, <<3953,
      3966>>, <<3968, 3972>>, <<3974, 3975>>, <<3981, 3991>>, <<3993, 4028>>, <<4038, 4038>>,
      <<4141, 4144>>, <<4146, 4151>>, <<4153, 4154>>, <<4157, 4158>>, <<4184, 4185>>, <<4190,
      4192>>, <<4209, 4212>>, <<4226, 4226>>, <<4229, 4230>>, <<4237, 4237>>, <<4253, 4253>>,
      <<4348, 4348>>, <<4957, 4959>>, <<5906, 5908>>, <<5938, 5939>>, <<5970, 5971>>, <<6002,
      6003>>, <<6068, 6069>>, <<6071, 6077>>, <<6086, 6086>>, <<6089, 6099>>, <<6103, 6103>>,
      <<6109, 6109>>, <<6155, 6159>>, <<6211, 6211>>, <<6277, 6278>>, <<6313, 6313>>, <<6432,
      6434>>, <<6439, 6440>>, <<6450, 6450>>, <<6457, 6459>>, <<6679, 6680>>, <<6683, 6683>>,
      <<6742, 6742>>, <<6744, 6750>>, <<6752, 6752>>, <<6754, 6754>>, <<6757, 6764>>, <<6771,
      6780>>, <<6783, 6783>>, <<6823, 6823>>, <<6832, 6877>>, <<6880, 6891>>, <<6912, 6915>>,
      <<6964, 6964>>, <<6966, 6970>>, <<6972, 6972>>, <<6978, 6978>>, <<7019, 7027>>, <<7040,
      7041>>, <<7074, 7077>>, <<7080, 7081>>, <<7083, 7085>>, <<7142, 7142>>, <<7144, 7145>>,
      <<7149, 7149>>, <<7151, 7153>>, <<7212, 7219>>, <<7222, 7223>>, <<7288, 7293>>, <<7376,
      7378>>, <<7380, 7392>>, <<7394, 7400>>, <<7405, 7405>>, <<7412, 7412>>, <<7416, 7417>>,
      <<7468, 7530>>, <<7544, 7544>>, <<7579, 7679>>, <<8125, 8125>>, <<8127, 8129>>, <<8141,
      8143>>, <<8157, 8159>>, <<8173, 8175>>, <<8189, 8190>>, <<8203, 8207>>, <<8216, 8217>>,
      <<8228, 8228>>, <<8231, 8231>>, <<8234, 8238>>, <<8288, 8292>>, <<8294, 8303>>, <<8305,
      8305>>, <<8319, 8319>>, <<8336, 8348>>, <<8400, 8432>>, <<11388, 11389>>, <<11503, 11505>>,
      <<11631, 11631>>, <<11647, 11647>>, <<11744, 11775>>, <<11823, 11823>>, <<12293, 12293>>,
      <<12330, 12333>>, <<12337, 12341>>, <<12347, 12347>>, <<12441, 12446>>, <<12540, 12542>>,
      <<40981, 40981>>, <<42232, 42237>>, <<42508, 42508>>, <<42607, 42610>>, <<42612, 42621>>,
      <<42623, 42623>>, <<42652, 42655>>, <<42736, 42737>>, <<42752, 42785>>, <<42864, 42864>>,
      <<42888, 42890>>, <<42993, 42996>>, <<43000, 43001>>, <<43010, 43010>>, <<43014, 43014>>,
      <<43019, 43019>>, <<43045, 43046>>, <<43052, 43052>>, <<43204, 43205>>, <<43232, 43249>>,
      <<43263, 43263>>, <<43302, 43309>>, <<43335, 43345>>, <<43392, 43394>>, <<43443, 43443>>,
      <<43446, 43449>>, <<43452, 43453>>, <<43471, 43471>>, <<43493, 43494>>, <<43561, 43566>>,
      <<43569, 43570>>, <<43573, 43574>>, <<43587, 43587>>, <<43596, 43596>>, <<43632, 43632>>,
      <<43644, 43644>>, <<43696, 43696>>, <<43698, 43700>>, <<43703, 43704>>, <<43710, 43711>>,
      <<43713, 43713>>, <<43741, 43741>>, <<43756, 43757>>, <<43763, 43764>>, <<43766, 43766>>,
      <<43867, 43871>>, <<43881, 43883>>, <<44005, 44005>>, <<44008, 44008>>, <<44013, 44013>>,
      <<64286, 64286>>, <<64434, 64450>>, <<65024, 65039>>, <<65043, 65043>>, <<65056, 65071>>,
      <<65106, 65106>>, <<65109, 65109>>, <<65279, 65279>>, <<65287, 65287>>, <<65294, 65294>>,
      <<65306, 65306>>, <<65342, 65342>>, <<65344, 65344>>, <<65392, 65392>>, <<65438, 65439>>,
      <<65507, 65507>>, <<65529, 65531>>, <<66045, 66045>>, <<66272, 66272>>, <<66422, 66426>>,
      <<67456, 67461>>, <<67463, 67504>>, <<67506, 67514>>, <<68097, 68099>>, <<68101, 68102>>,
      <<68108, 68111>>, <<68152, 68154>>, <<68159, 68159>>, <<68325, 68326>>, <<68900, 68903>>,
      <<68942, 68942>>, <<68969, 68973>>, <<68975, 68975>>, <<69291, 69292>>, <<69317, 69317>>,
      <<69370, 69375>>, <<69446, 69456>>, <<69506, 69509>>, <<69633, 69633>>, <<69688, 69702>>,
      <<69744, 69744>>, <<69747, 69748>>, <<69759, 69761>>, <<69811, 69814>>, <<69817, 69818>>,
      <<69821, 69821>>, <<69826, 69826>>, <<69837, 69837>>, <<69888, 69890>>, <<69927, 69931>>,
      <<69933, 69940>>, <<70003, 70003>>, <<70016, 70017>>, <<70070, 70078>>, <<70089, 70092>>,
      <<70095, 70095>>, <<70191, 70193>>, <<70196, 70196>>, <<70198, 70199>>, <<70206, 70206>>,
      <<70209, 70209>>, <<70367, 70367>>, <<70371, 70378>>, <<70400, 70401>>, <<70459, 70460>>,
      <<70464, 70464>>, <<70502, 70508>>, <<70512, 70516>>, <<70587, 70592>>, <<70606, 70606>>,
      <<70608, 70608>>, <<70610, 70610>>, <<70625, 70626>>, <<70712, 70719>>, <<70722, 70724>>,
      <<70726, 70726>>, <<70750, 70750>>, <<70835, 70840>>, <<70842, 70842>>, <<70847, 70848>>,
      <<70850, 70851>>, <<71090, 71093>>, <<71100, 71101>>, <<71103, 71104>>, <<71132, 71133>>,
      <<71219, 71226>>, <<71229, 71229>>, <<71231, 71232>>, <<71339, 71339>>, <<71341, 71341>>,
      <<71344, 71349>>, <<71351, 71351>>, <<71453, 71453>>, <<71455, 71455>>, <<71458, 71461>>,
      <<71463, 71467>>, <<71727, 71735>>, <<71737, 71738>>, <<71995, 71996>>, <<71998, 71998>>,
      <<72003, 72003>>, <<72148, 72151>>, <<72154, 72155>>, <<72160, 72160>>, <<72193, 72202>>,
      <<72243, 72248>>, <<72251, 72254>>, <<72263, 72263>>, <<72273, 72278>>, <<72281, 72283>>,
      <<72330, 72342>>, <<72344, 72345>>, <<72544, 72544>>, <<72546, 72548>>, <<72550, 72550>>,
      <<72752, 72758>>, <<72760, 72765>>, <<72767, 72767>>, <<72850, 72871>>, <<72874, 72880>>,
      <<72882, 72883>>, <<72885, 72886>>, <<73009, 73014>>, <<73018, 73018>>, <<73020, 73021>>,
      <<73023, 73029>>, <<73031, 73031>>, <<73104, 73105>>, <<73109, 73109>>, <<73111, 73111>>,
      <<73177, 73177>>, <<73459, 73460>>, <<73472, 73473>>, <<73526, 73530>>, <<73536, 73536>>,
      <<73538, 73538>>, <<73562, 73562>>, <<78896, 78912>>, <<78919, 78933>>, <<90398, 90409>>,
      <<90413, 90415>>, <<92912, 92916>>, <<92976, 92982>>, <<92992, 92995>>, <<93504, 93506>>,
      <<93547, 93548>>, <<94031, 94031>>, <<94095, 94111>>, <<94176, 94177>>, <<94179, 94180>>,
      <<94194, 94195>>, <<110576, 110579>>, <<110581, 110587>>, <<110589, 110590>>, <<113821,
      113822>>, <<113824, 113827>>, <<118528, 118573>>, <<118576, 118598>>, <<119143, 119145>>,
      <<119155, 119170>>, <<119173, 119179>>, <<119210, 119213>>, <<119362, 119364>>, <<121344,
      121398>>, <<121403, 121452>>, <<121461, 121461>>, <<121476, 121476>>, <<121499, 121503>>,
      <<121505, 121519>>, <<122880, 122886>>, <<122888, 122904>>, <<122907, 122913>>, <<122915,
      122916>>, <<122918, 122922>>, <<122928, 122989>>, <<123023, 123023>>, <<123184, 123197>>,
      <<123566, 123566>>, <<123628, 123631>>, <<124139, 124143>>, <<124398, 124399>>, <<124643,
      124643>>, <<124646, 124646>>, <<124654, 124655>>, <<124661, 124661>>, <<124671, 124671>>,
      <<125136, 125142>>, <<125252, 125259>>, <<127995, 127999>>, <<917505, 917505>>, <<917536,
      917631>>, <<917760, 917999>>>>

\* the characters with the property Cased that are not Case_Ignorable, as
\* <<first, last>>
CasedRanges ==
    <<<<65, 90>>, <<97, 122>>, <<170, 170>>, <<181, 181>>, <<186, 186>>, <<192, 214>>, <<216,
      246>>, <<248, 442>>, <<444, 447>>, <<452, 659>>, <<662, 687>>, <<880, 883>>, <<886, 887>>,
      <<891, 893>>, <<895, 895>>, <<902, 902>>, <<904, 906>>, <<908, 908>>, <<910, 929>>, <<931,
      1013>>, <<1015, 1153>>, <<1162, 1327>>, <<1329, 1366>>, <<1376, 1416>>, <<4256, 4293>>,
      <<4295, 4295>>, <<4301, 4301>>, <<4304, 4346>>, <<4349, 4351>>, <<5024, 5109>>, <<5112,
      5117>>, <<7296, 7306>>, <<7312, 7354>>, <<7357, 7359>>, <<7424, 7467>>, <<7531, 7543>>,
      <<7545, 7578>>, <<7680, 7957>>, <<7960, 7965>>, <<7968, 8005>>, <<8008, 8013>>, <<8016,
      8023>>, <<8025, 8025>>, <<8027, 8027>>, <<8029, 8029>>, <<8031, 8061>>, <<8064, 8116>>,
      <<8118, 8124>>, <<8126, 8126>>, <<8130, 8132>>, <<8134, 8140>>, <<8144, 8147>>, <<8150,
      8155>>, <<8160, 8172>>, <<8178, 8180>>, <<8182, 8188>>, <<8450, 8450>>, <<8455, 8455>>,
      <<8458, 8467>>, <<8469, 8469>>, <<8473, 8477>>, <<8484, 8484>>, <<8486, 8486>>, <<8488,
      8488>>, <<8490, 8493>>, <<8495, 8500>>, <<8505, 8505>>, <<8508, 8511>>, <<8517, 8521>>,
      <<8526, 8526>>, <<8544, 8575>>, <<8579, 8580>>, <<9398, 9449>>, <<11264, 11387>>, <<11390,
      11492>>, <<11499, 11502>>, <<11506, 11507>>, <<11520, 11557>>, <<11559, 11559>>, <<11565,
      11565>>, <<42560, 42605>>, <<42624, 42651>>, <<42786, 42863>>, <<42865, 42887>>, <<42891,
      42894>>, <<42896, 42972>>, <<42997, 42998>>, <<43002, 43002>>, <<43824, 43866>>, <<43872,
      43880>>, <<43888, 43967>>, <<64256, 64262>>, <<64275, 64279>>, <<65313, 65338>>, <<65345,
      65370>>, <<66560, 66639>>, <<66736, 66771>>, <<66776, 66811>>, <<66928, 66938>>, <<66940,
      66954>>, <<66956, 66962>>, <<66964, 66965>>, <<66967, 66977>>, <<66979, 66993>>, <<66995,
      67001>>, <<67003, 67004>>, <<68736, 68786>>, <<68800, 68850>>, <<68944, 68965>>, <<68976,
      68997>>, <<71840, 71903>>, <<93760, 93823>>, <<93856, 93880>>, <<93883, 93907>>, <<119808,
      119892>>, <<119894, 119964>>, <<119966, 119967>>, <<119970, 119970>>, <<119973, 119974>>,
      <<119977, 119980>>, <<119982, 119993>>, <<119995, 119995>>, <<119997, 120003>>, <<120005,
      120069>>, <<120071, 120074>>, <<120077, 120084>>, <<120086, 120092>>, <<120094, 120121>>,
      <<120123, 120126>>, <<120128, 120132>>, <<120134, 120134>>, <<120138, 120144>>, <<120146,
      120485>>, <<120488, 120512>>, <<120514, 120538>>, <<120540, 120570>>, <<120572, 120596>>,
      <<120598, 120628>>, <<120630, 120654>>, <<120656, 120686>>, <<120688, 120712>>, <<120714,
      120744>>, <<120746, 120770>>, <<120772, 120779>>, <<122624, 122633>>, <<122635, 122654>>,
      <<122661, 122666>>, <<125184, 125251>>, <<127280, 127305>>, <<127312, 127337>>, <<127344,
      127369>>>>

\* whether the character is in one of the ranges
InRanges(c, ranges) == \E k \in 1..Len(ranges) : ranges[k][1] <= c /\ c <= ranges[k][2]

Case_Ignorable(c) == InRanges(c, CaseIgnorableRanges)

\* Cased, asked only of a character that is not Case_Ignorable
Cased(c) == InRanges(c, CasedRanges)

\* the entries of LowercaseRanges that hold the character
LowercaseHits(c) ==
    {k \in 1..Len(LowercaseRanges) :
        /\ LowercaseRanges[k][1] <= c /\ c <= LowercaseRanges[k][2]
        /\ (c - LowercaseRanges[k][1]) % LowercaseRanges[k][3] = 0}

\* core::unicode::conversions::to_lower: the characters a character lowers
\* to; U+0130 lowers to "i" and U+0307, an ASCII character as
\* to_ascii_lowercase does
to_lower(c) ==
    IF c < 128 THEN <<IF c >= 65 /\ c <= 90 THEN c + 32 ELSE c>>
    ELSE IF c = 304 THEN <<105, 775>>
    ELSE IF LowercaseHits(c) = {} THEN <<c>>
    ELSE <<c + LowercaseRanges[CHOOSE k \in LowercaseHits(c) : TRUE][4]>>

\* iter.skip_while(Case_Ignorable).next() is a Cased character
RECURSIVE case_ignorable_then_cased(_)
case_ignorable_then_cased(iter) ==
    IF iter = <<>> THEN FALSE
    ELSE IF Case_Ignorable(Head(iter)) THEN case_ignorable_then_cased(Tail(iter))
    ELSE Cased(Head(iter))

\* the reverse of a sequence
reversed(s) == [k \in 1..Len(s) |-> s[Len(s) + 1 - k]]

\* map_uppercase_sigma: U+03A3 lowers to the final sigma U+03C2 at the end
\* of a word, to U+03C3 elsewhere
map_uppercase_sigma(from, i) ==
    IF /\ case_ignorable_then_cased(reversed(SubSeq(from, 1, i - 1)))
       /\ ~case_ignorable_then_cased(SubSeq(from, i + 1, Len(from)))
    THEN 962 ELSE 963

\* the bytes of the lowercase of the characters from the i-th on
RECURSIVE lowercase_from(_, _)
lowercase_from(from, i) ==
    IF i > Len(from) THEN <<>>
    ELSE (IF from[i] = 931 THEN encode_utf8(map_uppercase_sigma(from, i))
          ELSE IF Len(to_lower(from[i])) = 1 THEN encode_utf8(to_lower(from[i])[1])
          ELSE encode_utf8(to_lower(from[i])[1]) \o encode_utf8(to_lower(from[i])[2]))
         \o lowercase_from(from, i + 1)

\* str::to_lowercase
to_lowercase(s) == lowercase_from(chars(s), 1)

\* str::join(",")
RECURSIVE join(_)
join(parts) ==
    IF parts = <<>> THEN <<>>
    ELSE IF Len(parts) = 1 THEN parts[1]
    ELSE parts[1] \o <<44>> \o join(Tail(parts))

(***************************************************************************)
(* semver::Version::parse, as HaproxyHello::try_from uses it.  A number is *)
(* kept as its decimal digits (there are no leading zeros, so equal        *)
(* numbers have equal digits).                                             *)
(***************************************************************************)
IsDigit(b) == b >= 48 /\ b <= 57
IsIdentChar(b) == IsDigit(b) \/ (b >= 65 /\ b <= 90) \/ (b >= 97 /\ b <= 122) \/ b = 45

\* the length of the longest prefix of s made of digits
RECURSIVE DigitRun(_)
DigitRun(s) == IF s # <<>> /\ IsDigit(Head(s)) THEN 1 + DigitRun(Tail(s)) ELSE 0

\* decimal digits a and b of equal length: a > b
RECURSIVE DecGt(_, _)
DecGt(a, b) ==
    IF a = <<>> THEN FALSE
    ELSE IF Head(a) # Head(b) THEN Head(a) > Head(b)
    ELSE DecGt(Tail(a), Tail(b))

\* numeric_identifier: digits without a leading zero, below 2^64
numeric_identifier(s) ==
    LET n == DigitRun(s)
        digits == SubSeq(s, 1, n)
    IN  IF n = 0 THEN [tag |-> "Err"]
        ELSE IF n > 1 /\ s[1] = 48 THEN [tag |-> "Err"]
        ELSE IF n > 20 \/ (n = 20 /\ DecGt(digits, str_u64_max)) THEN [tag |-> "Err"]
        ELSE [tag |-> "Ok", value |-> digits, rest |-> Tail2(s, n)]

\* identifier: the longest prefix made of dot-separated, non-empty segments of
\* letters, digits and hyphens; a numeric segment of a pre-release has no
\* leading zero
RECURSIVE identifier_from(_, _, _, _, _)
identifier_from(s, i, segment_len, segment_has_nondigit, is_pre) ==
    LET at_end == i > Len(s) \/ ~(IsIdentChar(s[i]) \/ s[i] = 46)
        boundary_dot == ~at_end /\ s[i] = 46
    IN  IF ~at_end /\ ~boundary_dot
        THEN identifier_from(s, i + 1, segment_len + 1,
                             segment_has_nondigit \/ ~IsDigit(s[i]), is_pre)
        ELSE IF segment_len = 0
        THEN IF i = 1 /\ ~boundary_dot
             THEN [tag |-> "Ok", value |-> <<>>, rest |-> s]
             ELSE [tag |-> "Err"]
        ELSE IF is_pre /\ segment_len > 1 /\ ~segment_has_nondigit /\ s[i - segment_len] = 48
        THEN [tag |-> "Err"]
        ELSE IF boundary_dot THEN identifier_from(s, i + 1, 0, FALSE, is_pre)
        ELSE [tag |-> "Ok", value |-> SubSeq(s, 1, i - 1), rest |-> Tail2(s, i - 1)]
identifier(s, is_pre) == identifier_from(s, 1, 0, FALSE, is_pre)

\* the part of a version after the patch number
version_tail(s, major, minor, patch) ==
    LET pre == IF s # <<>> /\ Head(s) = 45 THEN identifier(Tail(s), TRUE)
               ELSE [tag |-> "Ok", value |-> <<>>, rest |-> s]
    IN  IF pre.tag # "Ok" \/ (s # <<>> /\ Head(s) = 45 /\ pre.value = <<>>) THEN [tag |-> "Err"]
        ELSE LET t == pre.rest
                 build == IF t # <<>> /\ Head(t) = 43 THEN identifier(Tail(t), FALSE)
                          ELSE [tag |-> "Ok", value |-> <<>>, rest |-> t]
             IN  IF build.tag # "Ok" \/ (t # <<>> /\ Head(t) = 43 /\ build.value = <<>>)
                 THEN [tag |-> "Err"]
                 ELSE IF build.rest # <<>> THEN [tag |-> "Err"]
                 ELSE [tag |-> "Ok",
                       value |-> [major |-> major, minor |-> minor, patch |-> patch,
                                  pre |-> pre.value, build |-> build.value]]

\* Version::parse
Version_parse(text) ==
    LET major == numeric_identifier(text)
    IN  IF major.tag # "Ok" \/ major.rest = <<>> \/ Head(major.rest) # 46 THEN [tag |-> "Err"]
        ELSE LET minor == numeric_identifier(Tail(major.rest))
             IN  IF minor.tag # "Ok" \/ minor.rest = <<>> \/ Head(minor.rest) # 46
                 THEN [tag |-> "Err"]
                 ELSE LET patch == numeric_identifier(Tail(minor.rest))
                      IN  IF patch.tag # "Ok" THEN [tag |-> "Err"]
                          ELSE version_tail(patch.rest, major.value, minor.value, patch.value)

(***************************************************************************)
(* frames/: the typed frames.  Each gives its frame type, metadata and     *)
(* payload; X_frame is the Frame that is serialized for it.                *)
(***************************************************************************)
None == [some |-> FALSE]
Some(v) == [some |-> TRUE, v |-> v]

\* HashMap::get on a KV-list
kv_get(kv_list, key) == IF key \in keys(kv_list) THEN Some(kv_list[key]) ELSE None

\* FrameCapabilities::from_str and its Display
from_str(s) ==
    IF to_lowercase(s) = str_pipelining THEN [tag |-> "Ok", value |-> "Pipelining"]
    ELSE [tag |-> "Err"]
capability_to_string(c) == str_pipelining

\* Ack::new, Ack::set_var, Ack::unset_var
Ack_new(stream_id, frame_id) ==
    [stream_id |-> stream_id, frame_id |-> frame_id, actions |-> <<>>]
set_var(self, scope, name, value) ==
    [self EXCEPT !.actions = Append(@, SetVar(scope, name, value))]
unset_var(self, scope, name) ==
    [self EXCEPT !.actions = Append(@, UnSetVar(scope, name))]

\* impl SpopFrame for Ack
Ack_metadata(self) == Metadata(FrameFlags_new(TRUE, FALSE), self.stream_id, self.frame_id)
Ack_payload(self) == ListOfActions(self.actions)
Ack_frame(self) == Frame("Ack", Ack_metadata(self), Ack_payload(self))

AgentHello(version, max_frame_size, capabilities) ==
    [version |-> version, max_frame_size |-> max_frame_size, capabilities |-> capabilities]

\* impl SpopFrame for AgentHello
AgentHello_metadata(self) == Metadata(FrameFlags_new(TRUE, FALSE), U64(0), U64(0))
AgentHello_payload(self) ==
    KVList(insert(insert(insert(HashMap_new, str_version, String(self.version)),
                         str_max_frame_size, UInt32(self.max_frame_size)),
                  str_capabilities,
                  String(join([i \in 1..Len(self.capabilities) |->
                                   capability_to_string(self.capabilities[i])]))))
AgentHello_frame(self) == Frame("AgentHello", AgentHello_metadata(self), AgentHello_payload(self))

AgentDisconnect(status_code, message) == [status_code |-> status_code, message |-> message]

\* impl SpopFrame for AgentDisconnect
AgentDisconnect_metadata(self) == Metadata(FrameFlags_new(TRUE, FALSE), U64(0), U64(0))
AgentDisconnect_payload(self) ==
    KVList(insert(insert(HashMap_new, str_status_code, UInt32(self.status_code)),
                  str_message, String(self.message)))
AgentDisconnect_frame(self) ==
    Frame("AgentDisconnect", AgentDisconnect_metadata(self), AgentDisconnect_payload(self))

\* one entry of "supported-versions": trimmed, padded with ".0" when it has
\* exactly one dot, then parsed
pad_version(trimmed) == IF count_dots(trimmed) = 1 THEN trimmed \o str_dot_0 ELSE trimmed
parse_version(s) == Version_parse(pad_version(trim(s)))

\* .collect::<Result<Vec<_>, _>>(): the values, or an error if there is one
collect_results(parsed) ==
    IF \E i \in 1..Len(parsed) : parsed[i].tag # "Ok" THEN [tag |-> "Err"]
    ELSE [tag |-> "Ok", value |-> [i \in 1..Len(parsed) |-> parsed[i].value]]

\* the versions of the pieces of a "supported-versions" string
RECURSIVE parse_versions(_)
parse_versions(pieces) ==
    IF pieces = <<>> THEN <<>>
    ELSE <<parse_version(Head(pieces))>> \o parse_versions(Tail(pieces))

\* the versions of a "supported-versions" string, or an error
supported_versions_of(v) == collect_results(parse_versions(split(v)))

\* Result::ok inside filter_map: the value of an Ok, nothing of an Err
ok_values(r) == IF r.tag = "Ok" THEN <<r.value>> ELSE <<>>

\* the known capabilities among the entries of a "capabilities" string
RECURSIVE capabilities_from(_)
capabilities_from(pieces) ==
    IF pieces = <<>> THEN <<>>
    ELSE ok_values(from_str(trim(Head(pieces)))) \o capabilities_from(Tail(pieces))
capabilities_of(v) == capabilities_from(split(v))

\* the Ok(Self { .. }) of try_from: `supported_versions?` and the fields
hello_fields(supported_versions, max_frame_size, capabilities, healthcheck, engine_id) ==
    IF supported_versions.tag # "Ok" THEN [tag |-> "Err", msg |-> "Invalid version"]
    ELSE [tag |-> "Ok",
          value |-> [supported_versions |-> supported_versions.value,
                     max_frame_size |-> max_frame_size,
                     capabilities |-> capabilities,
                     healthcheck |-> healthcheck,
                     engine_id |-> engine_id]]

\* try_from on the five items looked up in the key/value list
hello_of(supported_versions, max_frame_size, capabilities, healthcheck, engine_id) ==
    IF ~supported_versions.some \/ supported_versions.v.t # "String"
    THEN [tag |-> "Err", msg |-> "Missing or invalid supported_versions"]
    ELSE IF ~max_frame_size.some \/ max_frame_size.v.t # "UInt32"
    THEN [tag |-> "Err", msg |-> "Missing or invalid max_frame_size"]
    ELSE IF ~capabilities.some \/ capabilities.v.t # "String"
    THEN [tag |-> "Err", msg |-> "Missing or invalid capabilities"]
    ELSE hello_fields(supported_versions_of(supported_versions.v.v),
                      max_frame_size.v.v,
                      capabilities_of(capabilities.v.v),
                      IF healthcheck.some /\ healthcheck.v.t = "Bool"
                      THEN Some(healthcheck.v.v) ELSE None,
                      IF engine_id.some /\ engine_id.v.t = "String"
                      THEN Some(engine_id.v.v) ELSE None)

\* impl TryFrom<FramePayload> for HaproxyHello
try_from(payload) ==
    IF payload.kind # "KVList"
    THEN [tag |-> "Err", msg |-> "Invalid FramePayload type, expected KVList."]
    ELSE hello_of(kv_get(payload.items, str_supported_versions),
                  kv_get(payload.items, str_max_frame_size),
                  kv_get(payload.items, str_capabilities),
                  kv_get(payload.items, str_healthcheck),
                  kv_get(payload.items, str_engine_id))

\* Option::unwrap_or
unwrap_or(opt, default) == IF opt.some THEN opt.v ELSE default

(***************************************************************************)
(* examples/agent_tcp.rs and examples/agent.rs: handle_connection.         *)
(***************************************************************************)
\* the values rand::random_range(0..100) takes
RandomScores == 0..99

\* the variables set for the messages of a Notify; random_values are the
\* numbers drawn, one for each "check-client-ip"
RECURSIVE notify_vars(_, _)
notify_vars(messages, random_values) ==
    IF messages = <<>> THEN <<>>
    ELSE IF Head(messages).name = str_check_client_ip
    THEN << <<"Session", str_ip_score, UInt32(U64(Head(random_values)))>> >>
             \o notify_vars(Tail(messages), Tail(random_values))
    ELSE IF Head(messages).name = str_log_request
    THEN << <<"Transaction", str_my_var, String(str_tequila)>> >>
             \o notify_vars(Tail(messages), random_values)
    ELSE notify_vars(Tail(messages), random_values)

\* how many numbers the handler of a frame draws
RECURSIVE count_draws(_)
count_draws(messages) ==
    IF messages = <<>> THEN 0
    ELSE (IF Head(messages).name = str_check_client_ip THEN 1 ELSE 0) + count_draws(Tail(messages))
draws_of(frame) ==
    IF frame.frame_type = "Notify" /\ frame.payload.kind = "ListOfMessages"
    THEN count_draws(frame.payload.items) ELSE 0

\* vars.into_iter().fold(Ack::new(..), |ack, (scope, name, value)| ack.set_var(..))
RECURSIVE fold_set_var(_, _)
fold_set_var(ack, variables) ==
    IF variables = <<>> THEN ack
    ELSE fold_set_var(set_var(ack, Head(variables)[1], Head(variables)[2], Head(variables)[3]),
                      Tail(variables))

\* the Ack built in the Notify arm
notify_ack(frame, random_values) ==
    fold_set_var(Ack_new(frame.metadata.stream_id, frame.metadata.frame_id),
                 notify_vars(frame.payload.items, random_values))

\* what an arm of the match does before it first waits on the socket: the
\* frame it has built to send, if any; whether an error of the send is only
\* printed ("go_on") or returned with `?` ("return"); what follows a send:
\* the loop goes on ("go_on"), the function returns Ok ("done"), the socket
\* is closed ("close") or its write side is shut down ("shutdown"); and how
\* the function has ended if it has
Send(frame, on_err, then) ==
    [answer |-> <<frame>>, on_err |-> on_err, then |-> then, exit |-> "running"]
Return(how) == [answer |-> <<>>, on_err |-> "none", then |-> "none", exit |-> how]
GoOn == Return("running")

\* agent_tcp.rs, the HaproxyHello arm on the result of try_from: an error of
\* socket.send is printed and the arm goes on
tcp_hello(hello) ==
    IF hello.tag # "Ok" THEN Return("failed")
    ELSE Send(AgentHello_frame(AgentHello(str_2_0_0, hello.value.max_frame_size,
                                          <<"Pipelining">>)),
              "go_on",
              IF unwrap_or(hello.value.healthcheck, FALSE) THEN "done" ELSE "go_on")

\* agent_tcp.rs, the body of the while loop for a decoded frame, up to its
\* socket.send(..).await
tcp_handle(frame, random_values) ==
    CASE frame.frame_type = "HaproxyHello" -> tcp_hello(try_from(frame.payload))
      [] frame.frame_type = "HaproxyDisconnect" ->
           Send(AgentDisconnect_frame(AgentDisconnect(U64(0), str_Goodbye)), "return", "close")
      [] frame.frame_type = "Notify" ->
           IF frame.payload.kind = "ListOfMessages"
           THEN Send(Ack_frame(notify_ack(frame, random_values)), "return", "go_on")
           ELSE GoOn
      [] OTHER -> GoOn

\* agent_tcp.rs, socket.send(..).await of the answer a: the frame is written,
\* also when the peer has closed its end and the connection has not been
\* reset yet; on a connection that was reset the send fails; the frames
\* written and how the function goes on
tcp_send(a, p, o) ==
    IF p \in {"open", "closing"} THEN [out |-> Append(o, a.answer[1]), next |-> a.then]
    ELSE [out |-> o, next |-> IF a.on_err = "return" THEN "failed" ELSE a.then]

\* agent.rs, the HaproxyHello arm on the result of try_from, up to write_all
unix_hello(hello) ==
    IF hello.tag # "Ok" THEN Return("failed")
    ELSE Send(AgentHello_frame(AgentHello(str_2_0, hello.value.max_frame_size, <<>>)),
              "return",
              IF unwrap_or(hello.value.healthcheck, FALSE) THEN "shutdown" ELSE "go_on")

\* agent.rs, the Ok arm of the match on parse_frame, up to write_all
unix_handle(frame, random_values) ==
    CASE frame.frame_type = "HaproxyHello" -> unix_hello(try_from(frame.payload))
      [] frame.frame_type = "HaproxyDisconnect" ->
           Send(AgentDisconnect_frame(AgentDisconnect(U64(0), str_Goodbye)), "return", "shutdown")
      [] frame.frame_type = "Notify" ->
           IF frame.payload.kind = "ListOfMessages"
           THEN Send(Ack_frame(notify_ack(frame, random_values)), "return", "go_on")
           ELSE GoOn
      [] OTHER -> GoOn

\* agent.rs: write_all and flush of the answer a; the write fails once the
\* write side was shut down or the peer has closed its end, and the `?`
\* returns the error
unix_write(a, c, p, o) ==
    IF c = "open" /\ p = "open" THEN [out |-> Append(o, a.answer[1]), next |-> a.then]
    ELSE [out |-> o, next |-> "failed"]

\* what is kept of a frame handed to the match: the frame, how many frames
\* were written before and after its arm ran, the state of the socket
\* before, and the bytes that followed the frame in the buffer
LogEntry(frame, before, after, c, left) ==
    [frame |-> frame, before |-> before, after |-> after, conn |-> c, left |-> left]

(***************************************************************************)
(* The peer.  It writes frames in the layout parser.rs reads: the type of  *)
(* a typed value in the high four bits of its first byte, a list of        *)
(* messages behind a 4-byte count, a message behind an 8-byte length and   *)
(* its arguments behind a 4-byte count.                                    *)
(***************************************************************************)
\* the k big-endian bytes of a small number
RECURSIVE BeBytes(_, _)
BeBytes(n, k) == IF k = 0 THEN <<>> ELSE BeBytes(n \div 256, k - 1) \o <<n % 256>>

\* a typed value as parse_typed_data reads it
peer_typed_data(v) ==
    CASE v.t = "Null" -> <<0>>
      [] v.t = "Bool" -> <<16 + (IF v.v THEN 1 ELSE 0)>>
      [] v.t = "Int32" -> <<32>> \o encode_varint(SignExtend32(v.v))
      [] v.t = "UInt32" -> <<48>> \o encode_varint(v.v)
      [] v.t = "Int64" -> <<64>> \o encode_varint(v.v)
      [] v.t = "UInt64" -> <<80>> \o encode_varint(v.v)
      [] v.t = "IPv4" -> <<96>> \o v.v
      [] v.t = "IPv6" -> <<112>> \o v.v
      [] v.t = "String" -> <<128>> \o encode_varint(U64(Len(v.v))) \o v.v
      [] v.t = "Binary" -> <<144>> \o encode_varint(U64(Len(v.v))) \o v.v

\* a string as parse_string reads it
peer_string(str) == encode_varint(U64(Len(str))) \o str

\* pairs as parse_key_value_pair and parse_argument read them
RECURSIVE peer_pairs(_)
peer_pairs(pairs) ==
    IF pairs = <<>> THEN <<>>
    ELSE peer_string(Head(pairs)[1]) \o peer_typed_data(Head(pairs)[2]) \o peer_pairs(Tail(pairs))

\* a message as parse_single_message reads it
peer_message(m) ==
    LET data == peer_string(m.name) \o BeBytes(Len(m.args), 4) \o peer_pairs(m.args)
    IN  BeBytes(Len(data), 8) \o data

RECURSIVE peer_messages(_)
peer_messages(messages) ==
    IF messages = <<>> THEN <<>>
    ELSE peer_message(Head(messages)) \o peer_messages(Tail(messages))

str_1_0 == <<49, 46, 48>>  \* "1.0"
str_bye == <<98, 121, 101>>  \* "bye"
str_a == <<97>>  \* "a"

\* the keys of the KV-lists of the peer, in the order it writes them
PeerKeys ==
    <<str_supported_versions, str_max_frame_size, str_capabilities, str_healthcheck,
      str_engine_id, str_status_code, str_message, str_a>>

\* the pairs of a KV-list as the peer writes them one after the other
peer_kv_list(map) ==
    LET held == SelectSeq(PeerKeys, LAMBDA k : k \in keys(map))
    IN  [i \in 1..Len(held) |-> <<held[i], map[held[i]]>>]

peer_payload(payload) ==
    CASE payload.kind = "KVList" -> peer_pairs(peer_kv_list(payload.items))
      [] payload.kind = "ListOfMessages" ->
           BeBytes(Len(payload.items), 4) \o peer_messages(payload.items)
      [] payload.kind = "ListOfActions" -> serialize_actions(payload.items).value

\* a frame as parse_frame reads it
peer_frame(f) ==
    LET body == <<to_u8(f.frame_type)>> \o metadata_serialize(f.metadata) \o peer_payload(f.payload)
    IN  BeBytes(Len(body), 4) \o body

\* a pair the peer writes behind the pairs of a KV-list that holds its key
DuplicatePair == <<str_max_frame_size, UInt32(U64(1024))>>

\* a frame whose KV-list holds the key of DuplicatePair twice
duplicate_frame(f) ==
    LET body == <<to_u8(f.frame_type)>> \o metadata_serialize(f.metadata)
                    \o peer_payload(f.payload) \o peer_pairs(<<DuplicatePair>>)
    IN  BeBytes(Len(body), 4) \o body

\* the HaproxyHello frame of a peer
HaproxyHello(versions, max_frame_size, capabilities, more) ==
    Frame("HaproxyHello", Metadata(FrameFlags_new(TRUE, FALSE), U64(0), U64(0)),
          KVList(collect(<< <<str_supported_versions, String(versions)>>,
                            <<str_max_frame_size, UInt32(U64(max_frame_size))>>,
                            <<str_capabilities, String(capabilities)>> >> \o more)))

\* the maximum frame size the peer announces
PeerMaxFrameSize == 16384

HelloPipelining == HaproxyHello(str_2_0, PeerMaxFrameSize, str_pipelining, <<>>)
HelloPlain == HaproxyHello(str_2_0, PeerMaxFrameSize, <<>>, <<>>)
HelloHealthcheck ==
    HaproxyHello(str_2_0, PeerMaxFrameSize, str_pipelining, << <<str_healthcheck, Bool(TRUE)>> >>)
HelloOldVersion == HaproxyHello(str_1_0, PeerMaxFrameSize, str_pipelining, <<>>)
\* a peer that takes frames of 16 bytes at most
SmallMaxFrameSize == 16
HelloSmall == HaproxyHello(str_2_0, SmallMaxFrameSize, str_pipelining, <<>>)
PeerDisconnect ==
    Frame("HaproxyDisconnect", Metadata(FrameFlags_new(TRUE, FALSE), U64(0), U64(0)),
          KVList(collect(<< <<str_status_code, UInt32(U64(0))>>,
                            <<str_message, String(str_bye)>> >>)))
NotifyLog ==
    Frame("Notify", Metadata(FrameFlags_new(TRUE, FALSE), U64(1), U64(2)),
          ListOfMessages(<<Message(str_log_request, << <<str_a, Bool(TRUE)>> >>)>>))
NotifyScore ==
    Frame("Notify", Metadata(FrameFlags_new(TRUE, FALSE), U64(3), U64(1)),
          ListOfMessages(<<Message(str_check_client_ip, <<>>)>>))
PeerAck == Frame("Ack", Metadata(FrameFlags_new(TRUE, FALSE), U64(1), U64(2)), ListOfActions(<<>>))
\* a Notify the peer cancels: FIN and ABORT are both set
NotifyAbort ==
    Frame("Notify", Metadata(FrameFlags_new(TRUE, TRUE), U64(5), U64(1)),
          ListOfMessages(<<Message(str_log_request, <<>>)>>))

\* the frames a peer sends, and those it sends after its first frame
PeerFrames ==
    {HelloPipelining, HelloPlain, HelloHealthcheck, HelloOldVersion, PeerDisconnect,
     NotifyLog, NotifyScore, PeerAck, NotifyAbort, HelloSmall}
LaterFrames == {PeerDisconnect, NotifyLog, NotifyScore, NotifyAbort}

\* how many frames a peer sends at most
MaxFrames == 3

\* the frames behind the HaproxyHello of a script of MaxFrames frames
LongScriptFrames == {PeerDisconnect, NotifyLog}

\* the scripts of a peer: a frame for which the agent draws a number is the
\* only frame of its script or follows a HaproxyHello that asks for no
\* healthcheck, and a script of MaxFrames frames is the plain HaproxyHello
\* and frames of LongScriptFrames
Scripts ==
    {s \in UNION {[1..k -> PeerFrames] : k \in 0..MaxFrames} :
        /\ \A i \in 2..Len(s) : s[i] \in LaterFrames
        /\ \A i \in 1..Len(s) :
               draws_of(s[i]) > 0 =>
                   (i = Len(s) /\ (i = 1 \/ (i = 2 /\ s[1] \in {HelloPlain, HelloPipelining})))
        /\ Len(s) = MaxFrames =>
               (s[1] = HelloPlain /\ \A i \in 2..Len(s) : s[i] \in LongScriptFrames)}

RECURSIVE peer_stream(_)
peer_stream(frames) ==
    IF frames = <<>> THEN <<>> ELSE peer_frame(Head(frames)) \o peer_stream(Tail(frames))

\* the size in bytes of each frame a peer sends
FrameLen == [f \in PeerFrames |-> Len(peer_frame(f))]

\* the size in bytes of the stream of the frames
RECURSIVE StreamLen(_)
StreamLen(frames) ==
    IF frames = <<>> THEN 0 ELSE FrameLen[Head(frames)] + StreamLen(Tail(frames))

\* the positions in the stream at which the frames end, start being the
\* position at which the first frame begins
RECURSIVE FrameEnds(_, _)
FrameEnds(frames, start) ==
    IF frames = <<>> THEN {}
    ELSE {start + FrameLen[Head(frames)]}
             \cup FrameEnds(Tail(frames), start + FrameLen[Head(frames)])

\* the sizes of a read when the bytes w wait on the socket: a read returns
\* any number of them, one at least
ReadSizes(w) == 1..Len(w)

\* whether a read of n of the bytes w ends inside a frame
IsPartialRead(frames, w, n) == (StreamLen(frames) - Len(w) + n) \notin FrameEnds(frames, 0)

Agents == {"tcp", "unix"}

\* no codec run is going on
CodecIdle == cin = <<>> /\ cbytes = <<>> /\ cpc = "idle" /\ cres = <<>>

\* no answer waits to be written
NoAnswer ==
    [frame |-> <<>>, left |-> <<>>, answer |-> <<>>, on_err |-> "none", then |-> "none"]

\* the answer h of the arm of the inbound frame, behind which the bytes
\* left were in the buffer
Answering(frame, left, h) ==
    [frame |-> <<frame>>, left |-> left, answer |-> h.answer, on_err |-> h.on_err,
     then |-> h.then]

Init ==
    /\ profile \in Profiles
    /\ agent \in Agents
    /\ sent \in Scripts
    /\ wire = peer_stream(sent)
    /\ partials = 0
    /\ buffer = <<>>
    /\ pc = "read"
    /\ conn = "open"
    /\ exit = "running"
    /\ out = <<>>
    /\ log = <<>>
    /\ peer = "open"
    /\ pending = NoAnswer
    /\ CodecIdle

\* the peer closes its end of the connection; what it has written can still
\* be read.  On a TCP connection the agent has then the end of the stream
\* ("closing"): a frame it sends is still written, and is answered with a
\* reset, after which a send fails and a read finds the end of the stream
\* ("gone").  On a UNIX socket a write fails as soon as the peer has closed
\* ("gone").  On both, a peer that closes with an answer of the agent unread
\* resets the connection ("reset"): a write fails, and so does a read once
\* the bytes that wait are read
PeerCloses ==
    /\ exit = "running" /\ peer = "open"
    /\ peer' \in {IF agent = "tcp" THEN "closing" ELSE "gone"}
                    \cup (IF out = <<>> THEN {} ELSE {"reset"})
    /\ UNCHANGED <<profile, agent, sent, wire, partials, buffer, pc, conn, exit, out, log,
                   pending, codec_vars>>

\* agent_tcp.rs: Framed reads from the socket into its buffer
TcpRead ==
    /\ agent = "tcp" /\ exit = "running" /\ pc = "read" /\ wire # <<>>
    /\ \E n \in ReadSizes(wire) :
          /\ buffer' = buffer \o SubSeq(wire, 1, n)
          /\ wire' = Tail2(wire, n)
          /\ partials' = IF IsPartialRead(sent, wire, n) THEN 1 ELSE partials
    /\ pc' = "decode"
    /\ UNCHANGED <<profile, agent, sent, conn, exit, out, log, peer, pending, codec_vars>>

\* how the while loop of agent_tcp.rs goes on after the item r of the stream
tcp_item(r, random_values) ==
    CASE r.tag = "Some" -> tcp_handle(r.frame, random_values)
      [] r.tag = "None" -> GoOn
      [] r.tag = "Err" -> Return("decode_error")
      [] r.tag = "Panic" -> Return("panic")

\* the state after the item r was handled with the result h: the arm waits
\* in socket.send, or it has run
TcpHandled(r, h) ==
    /\ buffer' = r.src
    /\ pc' = IF h.answer # <<>> THEN "send" ELSE IF r.tag = "Some" THEN "decode" ELSE "read"
    /\ pending' = IF h.answer # <<>> THEN Answering(r.frame, r.src, h) ELSE NoAnswer
    /\ exit' = h.exit
    /\ conn' = IF h.exit = "running" THEN conn ELSE "closed"
    /\ log' = IF r.tag = "Some" /\ h.answer = <<>>
              THEN Append(log, LogEntry(r.frame, Len(out), Len(out), conn, r.src))
              ELSE log

\* the numbers drawn while the item r is handled
TcpDecoded(r) ==
    \E random_values \in [1..(IF r.tag = "Some" THEN draws_of(r.frame) ELSE 0) -> RandomScores] :
        TcpHandled(r, tcp_item(r, random_values))

\* agent_tcp.rs: Framed decodes its buffer; a frame goes through the body of
\* the while loop up to its socket.send(..).await, an error ends the loop
TcpDecode ==
    /\ agent = "tcp" /\ exit = "running" /\ pc = "decode"
    /\ TcpDecoded(decode(buffer, profile))
    /\ UNCHANGED <<profile, agent, sent, wire, partials, out, peer, codec_vars>>

\* the state after the send of the pending answer with the result w
TcpSent(w) ==
    /\ out' = w.out
    /\ log' = Append(log, LogEntry(pending.frame[1], Len(out), Len(w.out), conn, pending.left))
    /\ exit' = IF w.next \in {"failed", "done"} THEN w.next ELSE "running"
    /\ conn' = IF w.next \in {"failed", "done"} THEN "closed" ELSE conn
    /\ pc' = IF w.next = "close" THEN "close" ELSE "decode"
    /\ pending' = NoAnswer

\* agent_tcp.rs: socket.send(..).await returns and the arm runs to its end,
\* or to socket.close().await; the reset that answers a frame sent to a peer
\* that has closed has arrived when the agent comes to the socket again, or
\* it has not
TcpSend ==
    /\ agent = "tcp" /\ exit = "running" /\ pc = "send"
    /\ TcpSent(tcp_send(pending, peer, out))
    /\ peer' \in IF peer = "closing" THEN {"closing", "gone"} ELSE {peer}
    /\ UNCHANGED <<profile, agent, sent, wire, partials, buffer, codec_vars>>

\* agent_tcp.rs: socket.close().await after the AgentDisconnect, and
\* return Ok(()); nothing is left to flush, and the shutdown of the write
\* side does not fail on a connection the peer has left
TcpClose ==
    /\ agent = "tcp" /\ exit = "running" /\ pc = "close"
    /\ exit' = "done"
    /\ conn' = "closed"
    /\ UNCHANGED <<profile, agent, sent, wire, partials, buffer, pc, out, log, peer, pending,
                   codec_vars>>

\* agent_tcp.rs: everything the peer has written was read.  The stream ends
\* and so does the while loop; or the stream gives an error, because bytes
\* are left in the buffer or because the read fails on a connection the peer
\* has reset, and the Err arm breaks the loop
TcpReadEof ==
    /\ agent = "tcp" /\ exit = "running" /\ pc = "read" /\ wire = <<>>
    /\ exit' = IF buffer = <<>> /\ peer # "reset" THEN "eof" ELSE "decode_error"
    /\ conn' = "closed"
    /\ UNCHANGED <<profile, agent, sent, wire, partials, buffer, pc, out, log, peer, pending,
                   codec_vars>>

\* agent.rs: the match on the result r of parse_frame
unix_item(r, random_values) ==
    CASE r.tag = "Ok" -> unix_handle(r.value, random_values)
      [] r.tag = "Panic" -> Return("panic")
      [] OTHER -> GoOn

\* the state after the result r of parse_frame on the bytes read was
\* handled with the result h: the arm waits in write_all, or the turn of the
\* loop has ended with buffer.clear()
UnixHandled(r, h, bytes) ==
    /\ buffer' = IF h.answer # <<>> THEN bytes ELSE <<>>
    /\ pc' = IF h.answer # <<>> THEN "write" ELSE "read"
    /\ pending' = IF h.answer # <<>> THEN Answering(r.value, r.rest, h) ELSE NoAnswer
    /\ exit' = h.exit
    /\ conn' = IF h.exit = "running" THEN conn ELSE "closed"
    /\ log' = IF r.tag = "Ok" /\ h.answer = <<>>
              THEN Append(log, LogEntry(r.value, Len(out), Len(out), conn, r.rest))
              ELSE log

\* the numbers drawn while the result r is handled
UnixParsed(r, bytes) ==
    \E random_values \in [1..(IF r.tag = "Ok" THEN draws_of(r.value) ELSE 0) -> RandomScores] :
        UnixHandled(r, unix_item(r, random_values), bytes)

\* agent.rs: one turn of the loop up to its write_all(..).await: read_buf,
\* parse_frame, the match on the frame type; a turn that writes nothing ends
\* with buffer.clear()
UnixRead ==
    /\ agent = "unix" /\ exit = "running" /\ pc = "read" /\ wire # <<>>
    /\ \E n \in ReadSizes(wire) :
          /\ wire' = Tail2(wire, n)
          /\ partials' = IF IsPartialRead(sent, wire, n) THEN 1 ELSE partials
          /\ UnixParsed(parse_frame(buffer \o SubSeq(wire, 1, n), profile),
                        buffer \o SubSeq(wire, 1, n))
    /\ UNCHANGED <<profile, agent, sent, out, peer, codec_vars>>

\* the state after the write of the pending answer with the result w
UnixWritten(w) ==
    /\ out' = w.out
    /\ log' = Append(log, LogEntry(pending.frame[1], Len(out), Len(w.out), conn, pending.left))
    /\ exit' = IF w.next = "failed" THEN "failed" ELSE "running"
    /\ conn' = IF w.next = "failed" THEN "closed" ELSE conn
    /\ pc' = IF w.next = "shutdown" THEN "shutdown" ELSE "read"
    /\ buffer' = IF w.next = "go_on" THEN <<>> ELSE buffer
    /\ pending' = NoAnswer

\* agent.rs: write_all(..).await and flush().await return; the turn ends
\* with buffer.clear(), or goes on to socket.shutdown().await
UnixWrite ==
    /\ agent = "unix" /\ exit = "running" /\ pc = "write"
    /\ UnixWritten(unix_write(pending, conn, peer, out))
    /\ UNCHANGED <<profile, agent, sent, wire, partials, peer, codec_vars>>

\* agent.rs: socket.shutdown().await shuts the write side down, an error of
\* it is only printed; the turn ends with buffer.clear()
UnixShutdown ==
    /\ agent = "unix" /\ exit = "running" /\ pc = "shutdown"
    /\ conn' = "wshut"
    /\ buffer' = <<>>
    /\ pc' = "read"
    /\ UNCHANGED <<profile, agent, sent, wire, partials, exit, out, log, peer, pending,
                   codec_vars>>

\* agent.rs: everything the peer has written was read.  read_buf returns 0
\* and the loop ends; or it fails on a connection the peer has reset, and the
\* `?` returns the error
UnixReadEof ==
    /\ agent = "unix" /\ exit = "running" /\ pc = "read" /\ wire = <<>>
    /\ exit' = IF peer = "reset" THEN "failed" ELSE "eof"
    /\ conn' = "closed"
    /\ UNCHANGED <<profile, agent, sent, wire, partials, buffer, pc, out, log, peer, pending,
                   codec_vars>>

Next ==
    \/ PeerCloses
    \/ TcpRead \/ TcpDecode \/ TcpSend \/ TcpClose \/ TcpReadEof
    \/ UnixRead \/ UnixWrite \/ UnixShutdown \/ UnixReadEof

Spec == Init /\ [][Next]_vars

(***************************************************************************)
(* The codec on its own: a frame is serialized by Encoder::encode, or its  *)
(* bytes come from a peer; the first bytes of it may be all that has       *)
(* arrived; Decoder::decode and parse_frame run on the bytes.              *)
(***************************************************************************)
\* one value of every variant of TypedData
CodecValues ==
    {Null, Bool(TRUE), Bool(FALSE), Int32(U64(7)), Int32(<<255, 255, 255, 255, 0, 0, 0, 0>>),
     UInt32(U64(300)), Int64(U64(5)), UInt64(U64(1000000)), IPv4(<<127, 0, 0, 1>>),
     IPv6(<<0, 0, 0, 0, 0, 0, 0, 0, 0, 0, 0, 0, 0, 0, 0, 1>>), String(str_a), Binary(<<255>>)}

CodecMetadata == Metadata(FrameFlags_new(TRUE, FALSE), U64(1), U64(300))

\* the frame types whose payload is a KV-LIST
KVListTypes == {"HaproxyHello", "HaproxyDisconnect", "AgentHello", "AgentDisconnect"}

\* the frame types a peer sends
HaproxyTypes == {"HaproxyHello", "HaproxyDisconnect", "Notify"}

\* a HaproxyHello as HelloPlain with other metadata
HelloWith(metadata) == Frame("HaproxyHello", metadata, HelloPlain.payload)

\* a HaproxyHello without FIN, and one with FIN and the reserved bit 2
HelloNoFin == HelloWith(Metadata(FrameFlags_new(FALSE, FALSE), U64(0), U64(0)))
HelloReserved == HelloWith(Metadata(U64(5), U64(0), U64(0)))

\* a HaproxyHello with stream_id 1 and frame_id 2
HelloWithIds == HelloWith(Metadata(FrameFlags_new(TRUE, FALSE), U64(1), U64(2)))

\* frames a peer can put on the wire that break a rule of the protocol
BrokenFrames == {HelloNoFin, HelloReserved, HelloWithIds}
\* the Acks an agent builds with Ack::new, set_var and unset_var: one action
\* of either kind in every scope, and two actions one after the other
BuiltAcks ==
    {Ack_frame(set_var(Ack_new(U64(1), U64(300)), scope, str_a, UInt32(U64(300)))) :
        scope \in VarScopes}
    \cup {Ack_frame(unset_var(Ack_new(U64(1), U64(300)), scope, str_a)) : scope \in VarScopes}
    \cup {Ack_frame(set_var(set_var(Ack_new(U64(1), U64(300)), "Session", str_a, String(str_a)),
                            "Request", str_bye, UInt32(U64(7)))),
          Ack_frame(unset_var(set_var(Ack_new(U64(1), U64(300)), "Process", str_a, Bool(TRUE)),
                              "Response", str_a))}


\* frames of every type, with every kind of payload and every variant of
\* TypedData as a value, and the frames the two agents and the peer send
CodecFrames ==
    {Frame(t, CodecMetadata, KVList(collect(kv))) :
        t \in KVListTypes, kv \in {<<>>} \cup {<< <<str_a, v>> >> : v \in CodecValues}}
    \cup {Frame("Notify", CodecMetadata, ListOfMessages(ms)) :
            ms \in {<<>>} \cup {<<Message(str_a, << <<str_a, v>> >>)>> : v \in CodecValues}}
    \cup {Frame("Ack", CodecMetadata, ListOfActions(as)) :
            as \in {<<>>, <<UnSetVar("Session", str_a)>>}
                       \cup {<<SetVar("Session", str_a, v)>> : v \in CodecValues}}
    \cup {AgentHello_frame(AgentHello(str_2_0_0, U64(PeerMaxFrameSize), <<"Pipelining">>)),
          AgentDisconnect_frame(AgentDisconnect(U64(0), str_Goodbye))}
    \cup (PeerFrames \ {PeerAck})
    \cup BrokenFrames
    \cup BuiltAcks

InitCodec ==
    /\ profile \in Profiles
    /\ agent = "tcp"
    /\ sent = <<>>
    /\ wire = <<>>
    /\ partials = 0
    /\ buffer = <<>>
    /\ pc = "read"
    /\ conn = "open"
    /\ exit = "running"
    /\ out = <<>>
    /\ log = <<>>
    /\ peer = "open"
    /\ pending = NoAnswer
    /\ cin \in CodecFrames
    /\ cbytes = <<>>
    /\ cpc = "frame"
    /\ cres = <<>>

\* the state after Encoder::encode returned e
CodecEncoded(e) ==
    /\ cbytes' = e.dst
    /\ cpc' = IF e.tag = "Ok" THEN "encoded" ELSE "panic"

\* codec.rs: Encoder::encode puts the serialized frame on an empty buffer
CodecEncode ==
    /\ cpc = "frame"
    /\ \E kv_pairs \in payload_orders(cin.payload) : CodecEncoded(encode(cin, kv_pairs, <<>>))
    /\ UNCHANGED <<profile, session_vars, cin, cres>>

\* the frame arrives from a peer, in the layout parse_frame reads
CodecReceive ==
    /\ cpc = "frame"
    /\ cin.frame_type \in HaproxyTypes
    /\ cbytes' = peer_frame(cin)
    /\ cpc' = "received"
    /\ UNCHANGED <<profile, session_vars, cin, cres>>

\* only the first k bytes of the frame have arrived
CodecCut ==
    /\ cpc \in {"encoded", "received"}
    /\ \E k \in 0..(Len(cbytes) - 1) : cbytes' = SubSeq(cbytes, 1, k)
    /\ cpc' = "cut"
    /\ UNCHANGED <<profile, session_vars, cin, cres>>

\* the bytes of a frame before its payload: the type byte, the four bytes of
\* the flags and the two varints
HeaderLen(f) == 1 + Len(metadata_serialize(f.metadata))

\* a frame that declares and carries only its first k bytes
short_frame(f, k) == BeBytes(k, 4) \o SubSeq(peer_frame(f), 5, 4 + k)

\* a peer sends a whole frame whose declared frame_length is too small for
\* the type byte, the flags and the two varints
CodecReceiveShort ==
    /\ cpc = "frame"
    /\ cin.frame_type \in HaproxyTypes
    /\ \E k \in 0..(HeaderLen(cin) - 1) : cbytes' = short_frame(cin, k)
    /\ cpc' = "short"
    /\ UNCHANGED <<profile, session_vars, cin, cres>>

\* the type bytes a frame may arrive with: the six frame types and others
TypeBytes == {0, 1, 2, 3, 4, 100, 101, 102, 103, 104, 255}

\* a peer sends the frame with another type byte
CodecReceiveType ==
    /\ cpc = "frame"
    /\ cin \in PeerFrames \ {PeerAck}
    /\ \E b \in TypeBytes : cbytes' = [peer_frame(cin) EXCEPT ![5] = b]
    /\ cpc' = "retyped"
    /\ UNCHANGED <<profile, session_vars, cin, cres>>

\* how many bytes of a following frame have arrived behind the frame: one, a
\* length prefix and a type byte, or the whole frame
FollowingBytes == {1, 5, FrameLen[NotifyScore]}

\* the first bytes of the next frame of the peer, a Notify, have arrived
\* behind the frame
CodecReceiveMore ==
    /\ cpc = "received"
    /\ \E k \in FollowingBytes : cbytes' = cbytes \o SubSeq(peer_frame(NotifyScore), 1, k)
    /\ cpc' = "more"
    /\ UNCHANGED <<profile, session_vars, cin, cres>>
\* frame.rs: LIST-OF-MESSAGES : [ <MESSAGE-NAME> <NB-ARGS:1 byte> <KV-LIST> ... ]
\* one message: its name, one byte nb_args and the nb_args pairs
listed_message(m) == peer_string(m.name) \o <<Len(m.args)>> \o peer_pairs(m.args)

RECURSIVE listed_messages(_)
listed_messages(messages) ==
    IF messages = <<>> THEN <<>>
    ELSE listed_message(Head(messages)) \o listed_messages(Tail(messages))

\* a Notify whose payload is the messages one after the other
listed_frame(f) ==
    LET body == <<to_u8(f.frame_type)>> \o metadata_serialize(f.metadata)
                    \o listed_messages(f.payload.items)
    IN  BeBytes(Len(body), 4) \o body

\* a peer sends a HaproxyHello in which max-frame-size comes a second time
CodecReceiveDuplicate ==
    /\ cpc = "frame"
    /\ cin.frame_type = "HaproxyHello"
    /\ DuplicatePair[1] \in keys(cin.payload.items)
    /\ cbytes' = duplicate_frame(cin)
    /\ cpc' = "duplicate"
    /\ UNCHANGED <<profile, session_vars, cin, cres>>

\* a peer sends a Notify in the LIST-OF-MESSAGES layout
CodecReceiveListed ==
    /\ cpc = "frame"
    /\ cin.frame_type = "Notify"
    /\ cbytes' = listed_frame(cin)
    /\ cpc' = "listed"
    /\ UNCHANGED <<profile, session_vars, cin, cres>>



\* codec.rs, parser.rs: Decoder::decode and parse_frame on the bytes
CodecDecode ==
    /\ cpc \in {"encoded", "received", "cut", "short", "more", "retyped", "listed", "duplicate"}
    /\ cres' = [from |-> cpc,
                parsed |-> parse_frame(cbytes, profile),
                decoded |-> decode(cbytes, profile)]
    /\ cpc' = "decoded"
    /\ UNCHANGED <<profile, session_vars, cin, cbytes>>

NextCodec ==
    \/ CodecEncode \/ CodecReceive \/ CodecReceiveShort \/ CodecReceiveMore
    \/ CodecReceiveType \/ CodecReceiveListed \/ CodecReceiveDuplicate \/ CodecCut
    \/ CodecDecode

SpecCodec == InitCodec /\ [][NextCodec]_vars

(***************************************************************************)
(* The value codecs on their own: a 64-bit number goes through             *)
(* encode_varint and decode_varint; a TypedData value goes through         *)
(* to_bytes, and its bytes through the typed-data decoder of types.rs and  *)
(* the one of parser.rs; so do bytes that start with any header byte.      *)
(***************************************************************************)
\* the 64-bit numbers tried: both sides of every change of the encoded
\* length from 1 byte to 10, powers of two, and the largest values
VarintNumbers ==
    {U64(0), U64(1), U64(239), U64(240), U64(241), U64(255), U64(256), U64(2287), U64(2288),
     U64(264431), U64(264432), U64(33818863), U64(33818864),
     <<255, 255, 255, 127, 0, 0, 0, 0>>, <<0, 0, 0, 128, 0, 0, 0, 0>>,
     <<255, 255, 255, 255, 0, 0, 0, 0>>, <<0, 0, 0, 0, 1, 0, 0, 0>>,
     <<239, 8, 4, 2, 1, 0, 0, 0>>, <<240, 8, 4, 2, 1, 0, 0, 0>>,
     <<0, 0, 0, 0, 0, 1, 0, 0>>,
     <<239, 8, 4, 2, 129, 0, 0, 0>>, <<240, 8, 4, 2, 129, 0, 0, 0>>,
     <<239, 8, 4, 2, 129, 64, 0, 0>>, <<240, 8, 4, 2, 129, 64, 0, 0>>,
     <<239, 8, 4, 2, 129, 64, 32, 0>>, <<240, 8, 4, 2, 129, 64, 32, 0>>,
     <<239, 8, 4, 2, 129, 64, 32, 16>>, <<240, 8, 4, 2, 129, 64, 32, 16>>,
     <<0, 0, 0, 0, 0, 0, 0, 1>>, <<255, 255, 255, 255, 255, 255, 255, 127>>,
     <<0, 0, 0, 0, 0, 0, 0, 128>>, <<254, 255, 255, 255, 255, 255, 255, 255>>,
     <<255, 255, 255, 255, 255, 255, 255, 255>>}

\* the TypedData values tried: every variant, the extreme values of every
\* integer type, negative numbers, the empty String and the empty Binary
TypedValues ==
    {Null, Bool(TRUE), Bool(FALSE),
     Int32(U64(0)), Int32(U64(7)), Int32(<<255, 255, 255, 255, 0, 0, 0, 0>>),
     Int32(<<0, 0, 0, 128, 0, 0, 0, 0>>), Int32(<<255, 255, 255, 127, 0, 0, 0, 0>>),
     UInt32(U64(0)), UInt32(U64(300)), UInt32(<<255, 255, 255, 255, 0, 0, 0, 0>>),
     Int64(U64(0)), Int64(U64(5)), Int64(<<255, 255, 255, 255, 255, 255, 255, 255>>),
     Int64(<<0, 0, 0, 0, 0, 0, 0, 128>>), Int64(<<255, 255, 255, 255, 255, 255, 255, 127>>),
     UInt64(U64(0)), UInt64(U64(1000000)), UInt64(<<255, 255, 255, 255, 255, 255, 255, 255>>),
     IPv4(<<127, 0, 0, 1>>), IPv4(<<0, 0, 0, 0>>),
     IPv6(<<0, 0, 0, 0, 0, 0, 0, 0, 0, 0, 0, 0, 0, 0, 0, 1>>),
     String(<<>>), String(str_a), String(<<195, 169>>), String(str_pipelining),
     Binary(<<>>), Binary(<<255>>), Binary(<<0, 128, 255>>)}

\* the bytes behind a header byte: a varint of 1 and sixteen more bytes, so
\* that a value of every type can be read from them
HeaderBody == <<1, 97>> \o [i \in 1..15 |-> 0]

\* every header byte
HeaderBytes == 0..255

\* how many continuation bytes (>= 128) follow the first byte at most
MaxContinuation == 12

\* the bytes handed to the varint decoders: nothing, a one-byte varint, and
\* a first byte >= 240 followed by a run of continuation bytes that either
\* ends the input or is terminated by a byte < 128
VarintBytes ==
    {<<>>, <<7>>, <<239>>}
        \cup {<<first>> \o [i \in 1..n |-> cont] \o last :
                 first \in {240, 255}, n \in 0..MaxContinuation, cont \in {128, 255},
                 last \in {<<>>, <<0>>, <<1>>, <<127>>}}

\* the smallest max-frame-size of the protocol
MIN_FRAME_SIZE == 256

\* the pair of a key of a KV-list, or no pair when the key is absent
OptionalPair(key, value) == IF value.some THEN << <<key, value.v>> >> ELSE <<>>

\* the values a HaproxyHello payload may hold, or lack, under each key
HelloVersions == {None, Some(String(str_2_0)), Some(String(<<>>)), Some(String(str_a)),
                  Some(UInt32(U64(2)))}
HelloSizes == {None, Some(UInt32(U64(PeerMaxFrameSize))), Some(UInt32(U64(MIN_FRAME_SIZE))),
               Some(UInt32(U64(MIN_FRAME_SIZE - 1))), Some(UInt32(U64(0))),
               Some(String(str_a))}
\* "PIPELINING", and the same with U+0130 for its first I, which lowers to
\* "i" and U+0307
str_PIPELINING == <<80, 73, 80, 69, 76, 73, 78, 73, 78, 71>>
str_PIPELINING_dotted == <<80, 196, 176, 80, 69, 76, 73, 78, 73, 78, 71>>

HelloCapabilities ==
    {None, Some(String(<<>>)), Some(String(str_pipelining)), Some(String(str_PIPELINING)),
     Some(String(str_PIPELINING_dotted)), Some(Bool(TRUE))}
HelloHealthchecks == {None, Some(Bool(TRUE))}
HelloEngineIds == {None, Some(String(str_a))}

\* the KV-list payloads handed to HaproxyHello::try_from
HelloPayloads ==
    {KVList(collect(OptionalPair(str_supported_versions, sv)
                        \o OptionalPair(str_max_frame_size, mfs)
                        \o OptionalPair(str_capabilities, cap) \o OptionalPair(str_healthcheck, hc)
                        \o OptionalPair(str_engine_id, eid))) :
        sv \in HelloVersions, mfs \in HelloSizes, cap \in HelloCapabilities,
        hc \in HelloHealthchecks, eid \in HelloEngineIds}

\* the integers a peer sends as the body of an Int32 or UInt32: 300, 2^31,
\* 2^32, 2^32 + 300, 2^32 + 2^31 + 7 and 2^64 - 1
WideNumbers ==
    {U64(300), <<0, 0, 0, 128, 0, 0, 0, 0>>, <<0, 0, 0, 0, 1, 0, 0, 0>>,
     <<44, 1, 0, 0, 1, 0, 0, 0>>, <<7, 0, 0, 128, 1, 0, 0, 0>>,
     <<255, 255, 255, 255, 255, 255, 255, 255>>}

\* what a run of the value codecs starts from
ValueInputs ==
    {[kind |-> "varint", x |-> i] : i \in VarintNumbers}
        \cup {[kind |-> "wide", x |-> [t |-> t, v |-> n]] :
                 t \in {"Int32", "UInt32"}, n \in WideNumbers}
        \cup {[kind |-> "bytes", x |-> b] : b \in VarintBytes}
        \cup {[kind |-> "payload", x |-> payload] : payload \in HelloPayloads}
        \cup {[kind |-> "typed", x |-> v] : v \in TypedValues}
        \cup {[kind |-> "header", x |-> <<b>> \o HeaderBody] : b \in HeaderBytes}

InitValues ==
    /\ profile \in Profiles
    /\ agent = "tcp"
    /\ sent = <<>>
    /\ wire = <<>>
    /\ partials = 0
    /\ buffer = <<>>
    /\ pc = "read"
    /\ conn = "open"
    /\ exit = "running"
    /\ out = <<>>
    /\ log = <<>>
    /\ peer = "open"
    /\ pending = NoAnswer
    /\ cin \in ValueInputs
    /\ cbytes = <<>>
    /\ cpc = "value"
    /\ cres = <<>>

\* lib.rs: encode_varint on the number
VarintEncode ==
    /\ cpc = "value" /\ cin.kind = "varint"
    /\ cbytes' = encode_varint(cin.x)
    /\ cpc' = "encoded"
    /\ UNCHANGED <<profile, session_vars, cin, cres>>

\* lib.rs: decode_varint on the bytes of encode_varint
VarintDecode ==
    /\ cpc = "encoded" /\ cin.kind = "varint"
    /\ cres' = decode_varint(cbytes, profile)
    /\ cpc' = "decoded"
    /\ UNCHANGED <<profile, session_vars, cin, cbytes>>

\* bytes arrive that are handed to the varint decoders
VarintReceive ==
    /\ cpc = "value" /\ cin.kind = "bytes"
    /\ cbytes' = cin.x
    /\ cpc' = "encoded"
    /\ UNCHANGED <<profile, session_vars, cin, cres>>

\* lib.rs, parser.rs: decode_varint and parse_varint on the bytes
VarintBytesDecode ==
    /\ cpc = "encoded" /\ cin.kind = "bytes"
    /\ cres' = [lib |-> decode_varint(cbytes, profile),
                parser |-> parse_varint(cbytes, profile)]
    /\ cpc' = "decoded"
    /\ UNCHANGED <<profile, session_vars, cin, cbytes>>

\* haproxy_hello.rs: HaproxyHello::try_from on the payload
HelloConvert ==
    /\ cpc = "value" /\ cin.kind = "payload"
    /\ cres' = try_from(cin.x)
    /\ cpc' = "converted"
    /\ UNCHANGED <<profile, session_vars, cin, cbytes>>

\* types.rs: TypedData::to_bytes on an empty buf
TypedEncode ==
    /\ cpc = "value" /\ cin.kind = "typed"
    /\ cbytes' = to_bytes(cin.x)
    /\ cpc' = "encoded"
    /\ UNCHANGED <<profile, session_vars, cin, cres>>

\* bytes that start with the header byte arrive
HeaderReceive ==
    /\ cpc = "value" /\ cin.kind = "header"
    /\ cbytes' = cin.x
    /\ cpc' = "encoded"
    /\ UNCHANGED <<profile, session_vars, cin, cres>>

\* a peer sends an Int32 or UInt32 whose body is the varint of the integer,
\* with the type in the low nibble of the header byte, as typed_data reads
\* it, or in the high nibble, as parse_typed_data reads it
WideReceive ==
    /\ cpc = "value" /\ cin.kind = "wide"
    /\ \E shift \in {1, 16} :
           cbytes' = <<(IF cin.x.t = "Int32" THEN TYPE_INT32 ELSE TYPE_UINT32) * shift>>
                         \o encode_varint(cin.x.v)
    /\ cpc' = "encoded"
    /\ UNCHANGED <<profile, session_vars, cin, cres>>

\* types.rs, parser.rs: typed_data and parse_typed_data on the bytes
TypedDecode ==
    /\ cpc = "encoded" /\ cin.kind \in {"typed", "header", "wide"}
    /\ cres' = [typed |-> typed_data(cbytes, profile),
                parsed |-> parse_typed_data(cbytes, profile)]
    /\ cpc' = "decoded"
    /\ UNCHANGED <<profile, session_vars, cin, cbytes>>

NextValues ==
    \/ VarintEncode \/ VarintDecode \/ VarintReceive \/ VarintBytesDecode
    \/ TypedEncode \/ HeaderReceive \/ WideReceive \/ TypedDecode \/ HelloConvert

SpecValues == InitValues /\ [][NextValues]_vars

(***************************************************************************)
(* Properties of the codec, checked under SpecCodec.                       *)
(***************************************************************************)
\* the input holds fewer than 4 bytes, or the length prefix and fewer bytes
\* behind it than the prefix announces
ShortInput(input) ==
    \/ Len(input) < 4
    \/ LenBelow(Tail2(input, 4), U32FromBeBytes(SubSeq(input, 1, 4)))

\* C1: for every well-formed frame f, serializing f and parsing the bytes
\* returns a frame equal to f and leaves no bytes: serialize returns, and
\* parse_frame on its bytes is Ok with f and an empty rest.
C1_FrameRoundTrip ==
    /\ cpc # "panic"
    /\ (cpc = "decoded" /\ cres.from = "encoded") =>
           /\ cres.parsed = Ok(<<>>, cin)
           /\ cres.decoded = [tag |-> "Some", frame |-> cin, src |-> <<>>]

\* an Ack without actions was serialized and parse_frame refuses its bytes
C1_AckRefused ==
    /\ cpc = "decoded" /\ cres.from = "encoded"
    /\ cin = Frame("Ack", CodecMetadata, ListOfActions(<<>>))
    /\ cres.parsed = Failure("Tag")
    /\ cres.decoded.tag = "Err"

\* C3: parse_frame returns Incomplete, and decode Ok(None), whenever the
\* input holds fewer than 4 bytes, or holds the length prefix but fewer than
\* 4 + frame_length bytes.
C3_NeedMore ==
    (cpc = "decoded" /\ ShortInput(cbytes)) =>
        /\ cres.parsed = Incomplete
        /\ cres.decoded.tag = "None"

\* the length prefix of a frame of a peer and ten bytes of its body have
\* arrived, and parse_frame and decode return an error
C3_ShortBodyIsError ==
    /\ cpc = "decoded" /\ cres.from = "cut"
    /\ cin = NotifyLog
    /\ Len(cbytes) = 14
    /\ cres.parsed = Error("Eof")
    /\ cres.decoded.tag = "Err"

(***************************************************************************)
(* Properties of the two agents, checked under Spec.                       *)
(***************************************************************************)
\* handle_connection has returned
Returned == exit # "running"

\* the peer has not closed its end: no write of the agent has failed for it
PeerListening == peer = "open"

\* the frames handed to the match so far
Yielded == [i \in 1..Len(log) |-> log[i].frame]

\* frames that parse_frame accepts and whose arm lets the loop go on
Streamable(frames) ==
    \A i \in 1..Len(frames) :
        frames[i] \in {HelloPipelining, HelloPlain, HelloOldVersion, NotifyLog, NotifyScore}

\* C2: for a stream that is the concatenation of the encodings of frames
\* f1..fk, however it is cut into reads, the read/decode loop yields exactly
\* f1..fk in order: the frames yielded are always a prefix of f1..fk, and are
\* f1..fk once the loop has ended.
C2_StreamingDecode ==
    \/ ~PeerListening
    \/ Streamable(sent) =>
           /\ Len(log) <= Len(sent)
           /\ Yielded = SubSeq(sent, 1, Len(log))
           /\ Returned => Yielded = sent

\* agent_tcp.rs returned an error on the first ten bytes of a HaproxyHello
C2_TcpPartialRead ==
    /\ agent = "tcp"
    /\ sent = <<HelloPipelining>>
    /\ exit = "decode_error"
    /\ Len(wire) = FrameLen[HelloPipelining] - 10
    /\ log = <<>>

\* the i-th frame of the stream has been read from the socket
ReadFromSocket(i) == StreamLen(SubSeq(sent, 1, i)) <= StreamLen(sent) - Len(wire)

\* the i-th frame of the peer comes in an established session: after a
\* HaproxyHello that offers version 2.0 and is no healthcheck, and before
\* any HaproxyDisconnect
Established(frames, i) ==
    /\ i > 1
    /\ frames[1] \in {HelloPipelining, HelloPlain}
    /\ \A j \in 2..(i - 1) : frames[j] # PeerDisconnect

IsNotify(frame) == frame.frame_type = "Notify"

\* frame is an Ack that carries the stream_id and the frame_id of notify
AckOf(frame, notify) ==
    /\ frame.frame_type = "Ack"
    /\ frame.metadata.stream_id = notify.metadata.stream_id
    /\ frame.metadata.frame_id = notify.metadata.frame_id

\* C4: in an established session, for every Notify received without ABORT
\* exactly one Ack is written, with the stream_id and frame_id of the Notify,
\* and no Ack is written whose pair was not carried by a Notify received
\* earlier: once the agent has returned, there are as many Acks with the pair
\* of a Notify as Notify frames with that pair were read in the session, and
\* every Ack written carries the pair of a Notify read from the socket.
C4_AckPerNotify ==
    \/ ~PeerListening
    \/ /\ Returned =>
             \A i \in 1..Len(sent) :
                 (/\ IsNotify(sent[i]) /\ ~is_abort(sent[i].metadata.flags)
                  /\ Established(sent, i) /\ ReadFromSocket(i)) =>
                     Cardinality({j \in 1..Len(out) : AckOf(out[j], sent[i])})
                         = Cardinality({k \in 1..Len(sent) :
                                           /\ IsNotify(sent[k]) /\ Established(sent, k)
                                           /\ ReadFromSocket(k) /\ AckOf(Ack_frame(Ack_new(
                                                  sent[k].metadata.stream_id,
                                                  sent[k].metadata.frame_id)), sent[i])})
       /\ \A j \in 1..Len(out) :
             out[j].frame_type = "Ack" =>
                 \E i \in 1..Len(sent) :
                     IsNotify(sent[i]) /\ ReadFromSocket(i) /\ AckOf(out[j], sent[i])

\* agent.rs answered the HaproxyHello, read a Notify in two reads and has
\* returned at the end of the stream without an Ack
C4_NotifyDropped ==
    /\ agent = "unix"
    /\ sent = <<HelloPlain, NotifyLog>>
    /\ exit = "eof"
    /\ partials = 1
    /\ Len(out) = 1 /\ out[1].frame_type = "AgentHello"
    /\ Yielded = <<HelloPlain>>

\* agent.rs: BytesMut::with_capacity(4096), cleared after every read, is all
\* that one read can fill: a longer frame is never parsed
BUFFER_CAPACITY == 4096

\* the largest frame an agent can take: agent.rs what its buffer holds,
\* agent_tcp.rs what the length prefix of a frame can announce
local_max_frame_size(a) ==
    IF a = "unix" THEN U64(BUFFER_CAPACITY) ELSE <<255, 255, 255, 255, 0, 0, 0, 0>>

NumMin(a, b) == IF NumLt(a, b) THEN a ELSE b

IsHello(frame) == frame.frame_type = "HaproxyHello"

\* the i-th frame handed to the match had a frame written in its arm
Answered(i) == log[i].after = log[i].before + 1

\* the frame written in the arm of the i-th frame handed to the match
Answer(i) == out[log[i].after]

\* the value of an item of a KV-LIST payload
item_of(frame, key) == kv_get(frame.payload.items, key).v.v

\* C5: the max-frame-size written in the AgentHello equals the minimum of
\* the max-frame-size of the HaproxyHello and the agent's own maximum.
C5_MaxFrameSizeIsMin ==
    \A i \in 1..Len(log) :
        (IsHello(log[i].frame) /\ Answered(i) /\ Answer(i).frame_type = "AgentHello") =>
            item_of(Answer(i), str_max_frame_size)
                = NumMin(item_of(log[i].frame, str_max_frame_size),
                         local_max_frame_size(agent))

\* agent.rs answered a HaproxyHello with the max-frame-size of the peer,
\* which is more than its buffer holds
C5_PeerSizeEchoed ==
    /\ agent = "unix"
    /\ Len(log) = 1 /\ log[1].frame = HelloPlain /\ Answered(1)
    /\ Answer(1).frame_type = "AgentHello"
    /\ item_of(Answer(1), str_max_frame_size) = U64(PeerMaxFrameSize)
    /\ NumLt(U64(BUFFER_CAPACITY), U64(PeerMaxFrameSize))

\* the HaproxyHello is a healthcheck
IsHealthcheck(frame) ==
    /\ IsHello(frame)
    /\ try_from(frame.payload).tag = "Ok"
    /\ unwrap_or(try_from(frame.payload).value.healthcheck, FALSE)

\* C6: after a HaproxyHello whose healthcheck item is true the agent writes
\* exactly one frame, the AgentHello, and the connection is then closed: no
\* other frame is written afterwards and no later inbound frame is processed.
C6_HealthcheckCloses ==
    \/ ~PeerListening
    \/ \A i \in 1..Len(log) :
           (IsHealthcheck(log[i].frame) /\ log[i].conn = "open") =>
               /\ Answered(i) /\ Answer(i).frame_type = "AgentHello"
               /\ Len(out) = log[i].after
               /\ Len(log) = i
               /\ Returned => conn = "closed"

\* agent.rs answered a healthcheck and then handed a Notify to its match
C6_FrameAfterHealthcheck ==
    /\ agent = "unix"
    /\ Len(log) = 2
    /\ log[1].frame = HelloHealthcheck /\ Answer(1).frame_type = "AgentHello"
    /\ log[2].frame = NotifyLog /\ log[2].conn = "wshut"
    /\ exit = "failed"

\* C7: on a HaproxyDisconnect the agent writes exactly one AgentDisconnect
\* and the connection is then closed: after it no further inbound frame is
\* processed and no further frame is written.
C7_DisconnectCloses ==
    \/ ~PeerListening
    \/ \A i \in 1..Len(log) :
           (log[i].frame.frame_type = "HaproxyDisconnect" /\ log[i].conn = "open") =>
               /\ Answered(i) /\ Answer(i).frame_type = "AgentDisconnect"
               /\ Len(out) = log[i].after
               /\ Len(log) = i
               /\ Returned => conn = "closed"

\* agent.rs answered a HaproxyDisconnect and then handed a Notify to its
\* match
C7_FrameAfterDisconnect ==
    /\ agent = "unix"
    /\ Len(log) = 3
    /\ log[1].frame = HelloPlain
    /\ log[2].frame = PeerDisconnect /\ Answer(2).frame_type = "AgentDisconnect"
    /\ log[3].frame = NotifyLog /\ log[3].conn = "wshut"
    /\ exit = "failed"

\* C8: while no HaproxyHello has been received, any other inbound frame is
\* answered with an AgentDisconnect and the session stops accepting frames;
\* no Ack is written before an AgentHello.
C8_HelloFirst ==
    \/ ~PeerListening
    \/ /\ \A i \in 1..Len(log) :
             (\A j \in 1..i : ~IsHello(log[j].frame)) =>
                 /\ Answered(i) /\ Answer(i).frame_type = "AgentDisconnect"
                 /\ Len(log) = i
       /\ \A j \in 1..Len(out) :
             out[j].frame_type = "Ack" => \E k \in 1..(j - 1) : out[k].frame_type = "AgentHello"

\* a Notify was the first frame of the connection and an Ack is the first
\* frame written
C8_AckWithoutHello ==
    /\ Len(log) >= 1 /\ log[1].frame = NotifyLog
    /\ Len(out) >= 1 /\ AckOf(out[1], NotifyLog)

\* the versions the agents support
IsVersion_2_0(version) == version.major = <<50>> /\ version.minor = <<48>>

\* the HaproxyHello offers a version the agents support
OffersSupportedVersion(frame) ==
    /\ try_from(frame.payload).tag = "Ok"
    /\ \E k \in 1..Len(try_from(frame.payload).value.supported_versions) :
          IsVersion_2_0(try_from(frame.payload).value.supported_versions[k])

\* C9: when the supported-versions of the HaproxyHello hold no version the
\* agent supports (2.0 only), the agent answers with an AgentDisconnect with
\* a status-code other than 0 and writes no AgentHello; an AgentHello is
\* written only with a version of the intersection.
C9_VersionMismatch ==
    \/ ~PeerListening
    \/ \A i \in 1..Len(log) :
           (IsHello(log[i].frame) /\ log[i].conn = "open") =>
               IF OffersSupportedVersion(log[i].frame)
               THEN Answered(i) =>
                        (Answer(i).frame_type = "AgentHello" =>
                             /\ parse_version(item_of(Answer(i), str_version)).tag = "Ok"
                             /\ IsVersion_2_0(parse_version(item_of(Answer(i), str_version)).value))
               ELSE /\ Answered(i) /\ Answer(i).frame_type = "AgentDisconnect"
                    /\ item_of(Answer(i), str_status_code) # U64(0)

\* a HaproxyHello that offers version 1.0 only was answered with an
\* AgentHello
C9_OldVersionAccepted ==
    /\ Len(log) >= 1 /\ log[1].frame = HelloOldVersion
    /\ ~OffersSupportedVersion(HelloOldVersion)
    /\ Answered(1) /\ Answer(1).frame_type = "AgentHello"

\* the capabilities of the HaproxyHello and those the agent writes in its
\* AgentHello both hold pipelining
PipeliningAgreed ==
    /\ Len(log) >= 1 /\ IsHello(log[1].frame) /\ Answered(1)
    /\ Answer(1).frame_type = "AgentHello"
    /\ "Pipelining" \in {capabilities_of(item_of(log[1].frame, str_capabilities))[k] :
                            k \in 1..Len(capabilities_of(item_of(log[1].frame, str_capabilities)))}
    /\ "Pipelining" \in {capabilities_of(item_of(Answer(1), str_capabilities))[k] :
                            k \in 1..Len(capabilities_of(item_of(Answer(1), str_capabilities)))}

\* a whole Notify had arrived behind the i-th frame when its arm ran
NotifyWaiting(i) ==
    /\ parse_frame(log[i].left, profile).tag = "Ok"
    /\ IsNotify(parse_frame(log[i].left, profile).value)

\* C10: when pipelining was not agreed, a second Notify that arrives before
\* the Ack of the previous Notify is written is not handed to the handler
\* and not acknowledged, and the agent writes an AgentDisconnect with a
\* status-code other than 0.
C10_NoPipelining ==
    \/ ~PeerListening
    \/ \A i \in 2..Len(log) :
           (/\ IsHello(log[1].frame) /\ Answered(1) /\ ~PipeliningAgreed
            /\ IsNotify(log[i].frame) /\ Answered(i) /\ NotifyWaiting(i)) =>
               /\ \A j \in (i + 1)..Len(log) : ~IsNotify(log[j].frame)
               /\ Returned =>
                     \E k \in (log[i].after + 1)..Len(out) :
                         /\ out[k].frame_type = "AgentDisconnect"
                         /\ item_of(out[k], str_status_code) # U64(0)

\* without pipelining agreed, agent_tcp.rs has written an Ack for each of
\* two Notify frames that came in one read
C10_BothAcked ==
    /\ agent = "tcp"
    /\ Len(log) = 3 /\ log[1].frame = HelloPlain /\ ~PipeliningAgreed
    /\ log[2].frame = NotifyLog /\ NotifyWaiting(2)
    /\ log[3].frame = NotifyLog
    /\ Len(out) = 3 /\ AckOf(out[2], NotifyLog) /\ AckOf(out[3], NotifyLog)


\* the i-th frame handed to the match is a Notify with the ABORT flag set
IsAbortedNotify(i) == IsNotify(log[i].frame) /\ is_abort(log[i].frame.metadata.flags)

\* C11: a Notify that arrives with the ABORT flag set never produces an Ack,
\* does not close the connection and leaves the session established: no
\* frame is written in the arm of such a Notify, the connection is open
\* after it, and a Notify without ABORT handed to the match right after it
\* is answered with an Ack of its own stream_id and frame_id.
C11_AbortNotAcked ==
    \/ ~PeerListening
    \/ \A i \in 1..Len(log) :
           IsAbortedNotify(i) =>
               /\ ~Answered(i)
               /\ log[i].conn = "open"
               /\ (i < Len(log) /\ IsNotify(log[i + 1].frame) /\ ~IsAbortedNotify(i + 1)) =>
                      (Answered(i + 1) /\ AckOf(Answer(i + 1), log[i + 1].frame))

\* agent_tcp.rs answered the HaproxyHello and then wrote an Ack for the
\* Notify whose ABORT flag was set
C11_AbortAcked ==
    /\ agent = "tcp"
    /\ sent = <<HelloPlain, NotifyAbort>>
    /\ Len(log) = 2 /\ IsAbortedNotify(2)
    /\ Answered(2) /\ AckOf(Answer(2), NotifyAbort)


\* the agent has run the decoder on the whole first frame of the peer, read
\* without a partial read, and that frame is an Ack, which parse_frame
\* refuses with Failure(Tag)
ProtocolErrorDecoded ==
    /\ sent # <<>> /\ sent[1] = PeerAck
    /\ partials = 0 /\ ReadFromSocket(1)
    /\ agent = "tcp" => (pc = "read" \/ exit # "running")

\* C12: whenever decoding of an inbound frame fails with a protocol error
\* (not 'need more bytes'), the agent writes an AgentDisconnect describing
\* the error and then closes the connection: after such a failure the last
\* frame written is an AgentDisconnect and the connection is closed.
C12_ErrorDisconnects ==
    ProtocolErrorDecoded =>
        /\ out # <<>>
        /\ out[Len(out)].frame_type = "AgentDisconnect"
        /\ conn = "closed"

\* agent_tcp.rs left its loop on the decode error and closed the connection
\* without having written a frame
C12_ClosedWithoutDisconnect ==
    /\ agent = "tcp"
    /\ sent = <<PeerAck>>
    /\ ProtocolErrorDecoded
    /\ exit = "decode_error" /\ conn = "closed"
    /\ out = <<>>


\* C13: for every 64-bit unsigned value x, decode_varint(encode_varint(x))
\* returns x with zero bytes remaining.
C13_VarintRoundTrip ==
    (cpc = "decoded" /\ cin.kind = "varint") => cres = Ok(<<>>, cin.x)

\* a debug build has decoded the ten bytes of the largest 64-bit value
C13_MaxDecoded ==
    /\ profile = "debug"
    /\ cin = [kind |-> "varint", x |-> <<255, 255, 255, 255, 255, 255, 255, 255>>]
    /\ cpc = "decoded"
    /\ Len(cbytes) = 10
    /\ cres.tag = "Ok" /\ cres.value = cin.x /\ cres.rest = <<>>


\* C14: for every TypedData value v of each of the ten variants, decoding
\* with typed_data the bytes written by v.to_bytes returns v with no bytes
\* remaining.
C14_TypedRoundTrip ==
    (cpc = "decoded" /\ cin.kind = "typed") => cres.typed = Ok(<<>>, cin.x)

\* a debug build has decoded the bytes of Int64(i64::MIN), the type byte
\* and the ten bytes of the varint of 2^63
C14_Int64MinDecoded ==
    /\ profile = "debug"
    /\ cin = [kind |-> "typed", x |-> Int64(<<0, 0, 0, 0, 0, 0, 0, 128>>)]
    /\ cpc = "decoded"
    /\ Len(cbytes) = 11 /\ cbytes[1] = TYPE_INT64
    /\ cres.typed.tag = "Ok" /\ cres.typed.value = cin.x /\ cres.typed.rest = <<>>


\* C15: every typed-data decoder of the library reads the type id from the
\* low nibble of the header byte and the flags from the high nibble: the
\* decoder of parser.rs and types::typed_data decode bytes that start with
\* any header byte to the same result, and the decoder of parser.rs reads
\* back the value whose bytes to_bytes wrote.
C15_DecodersAgree ==
    /\ (cpc = "decoded" /\ cin.kind = "header") => cres.parsed = cres.typed
    /\ (cpc = "decoded" /\ cin.kind = "typed") => cres.parsed = Ok(<<>>, cin.x)

\* the header byte 0x01 was decoded: typed_data reads type 1 and flags 0,
\* Bool(false); parse_typed_data reads type 0 and flags 1, Null
C15_BoolReadAsNull ==
    /\ cin.kind = "header" /\ cin.x[1] = 1
    /\ cpc = "decoded"
    /\ cres.typed.tag = "Ok" /\ cres.typed.value = Bool(FALSE)
    /\ cres.parsed.tag = "Ok" /\ cres.parsed.value = Null


\* C16: parse_frame never returns a frame whose 32-bit flags field has the
\* FIN bit clear or any of the reserved bits 2..31 set: the flags of every
\* frame it returns pass FrameFlags::from_u32.
C16_FlagsValidated ==
    (cpc = "decoded" /\ cres.parsed.tag = "Ok") =>
        from_u32(cres.parsed.value.metadata.flags).tag = "Ok"

\* parse_frame returned the HaproxyHello whose flags field is 0
C16_NoFinParsed ==
    /\ cin = HelloNoFin
    /\ cpc = "decoded" /\ cres.from = "received"
    /\ cres.parsed.tag = "Ok"
    /\ ~is_fin(cres.parsed.value.metadata.flags)
    /\ from_u32(cres.parsed.value.metadata.flags) = [tag |-> "Err", kind |-> "Verify"]


\* the frames the library builds for an agent
AgentFrames ==
    {AgentHello_frame(AgentHello(str_2_0_0, U64(PeerMaxFrameSize), <<"Pipelining">>)),
     AgentDisconnect_frame(AgentDisconnect(U64(0), str_Goodbye)),
     Ack_frame(Ack_new(U64(1), U64(2)))}

\* C17: every frame the library produces for the wire has FIN set in its
\* flags: the metadata of AgentHello, AgentDisconnect and Ack has FIN = 1
\* and ABORT = 0, and no frame whose metadata has FIN clear is serialized
\* to bytes: whenever Encoder::encode has put a frame on the buffer, the
\* frame has FIN set and so has the flags field of the bytes.
C17_ProducedFinSet ==
    /\ \A f \in AgentFrames : is_fin(f.metadata.flags) /\ ~is_abort(f.metadata.flags)
    /\ cpc = "encoded" =>
          /\ is_fin(cin.metadata.flags)
          /\ is_fin(U32FromBeBytes(SubSeq(cbytes, 6, 9)))

\* the HaproxyHello built with FrameFlags::new(false, false) was serialized:
\* the flags field of its bytes is 00 00 00 00
C17_NoFinSerialized ==
    /\ cin = HelloNoFin
    /\ cpc = "encoded"
    /\ SubSeq(cbytes, 5, 9) = <<1, 0, 0, 0, 0>>


\* the frame is a Hello or a Disconnect, of either direction
IsHelloOrDisconnect(frame) == frame.frame_type \in KVListTypes

\* stream_id = 0 and frame_id = 0
HasZeroIds(frame) == frame.metadata.stream_id = U64(0) /\ frame.metadata.frame_id = U64(0)

\* C18: every Hello and Disconnect frame, in both directions, has
\* stream_id = 0 and frame_id = 0, enforced on both paths: a Hello or
\* Disconnect that parse_frame returns has both ids zero, and so has one
\* that Encoder::encode has put on the buffer.
C18_ZeroIds ==
    /\ (cpc = "decoded" /\ cres.parsed.tag = "Ok" /\ IsHelloOrDisconnect(cres.parsed.value)) =>
           HasZeroIds(cres.parsed.value)
    /\ (cpc = "encoded" /\ IsHelloOrDisconnect(cin)) => HasZeroIds(cin)

\* parse_frame returned the HaproxyHello that came with stream_id 1 and
\* frame_id 2
C18_HelloWithIdsParsed ==
    /\ cin = HelloWithIds
    /\ cpc = "decoded" /\ cres.from = "received"
    /\ cres.parsed.tag = "Ok"
    /\ cres.parsed.value.frame_type = "HaproxyHello"
    /\ cres.parsed.value.metadata.stream_id = U64(1)
    /\ cres.parsed.value.metadata.frame_id = U64(2)


\* C19: parsing a KV-list payload in which the same key occurs more than
\* once yields a protocol error: parse_frame and decode return an error for
\* the bytes of such a frame, and the later pair never replaces the value of
\* the earlier one.
C19_DuplicateKeyRejected ==
    (cpc = "decoded" /\ cres.from = "duplicate") =>
        (cres.parsed.tag \in {"Error", "Failure"} /\ cres.decoded.tag = "Err")

\* parse_frame returned the HaproxyHello with the four pairs it came with:
\* max-frame-size is held twice, 16384 by the second pair and 1024 by the
\* fourth
C19_DuplicateKeyParsed ==
    /\ cin = HelloPlain
    /\ cpc = "decoded" /\ cres.from = "duplicate"
    /\ cres.parsed.tag = "Ok"
    /\ cres.parsed.value.payload.kind = "KeyValuePairs"
    /\ Len(cres.parsed.value.payload.items) = 4
    /\ cres.parsed.value.payload.items[2] = <<DuplicatePair[1], UInt32(U64(PeerMaxFrameSize))>>
    /\ cres.parsed.value.payload.items[4] = DuplicatePair
    /\ cres.decoded.tag = "Some"
    /\ cres.decoded.frame = cres.parsed.value


\* C20: a frame whose declared frame_length is 0, or is too short to hold
\* the type byte, the 4 flag bytes and the two varints, is rejected with an
\* error once its declared bytes are present; it is never answered with
\* 'need more bytes': parse_frame returns an error and decode returns Err.
C20_ShortFrameRejected ==
    (cpc = "decoded" /\ cres.from = "short") =>
        /\ cres.parsed.tag \in {"Error", "Failure"}
        /\ cres.decoded.tag = "Err"

\* the four bytes 00 00 00 00, a frame of length 0, were decoded: parse_frame
\* returned Incomplete and decode Ok(None)
C20_EmptyFrameNeedsMore ==
    /\ cpc = "decoded" /\ cres.from = "short"
    /\ cbytes = <<0, 0, 0, 0>>
    /\ cres.parsed = Incomplete
    /\ cres.decoded.tag = "None"


\* the frame_length of the bytes Frame::serialize returns for the frame
frame_length_of(frame) ==
    Len(serialize(frame, CHOOSE kv_pairs \in payload_orders(frame.payload) : TRUE).value) - 4

\* the max-frame-size of the AgentHello the agent wrote first, if it did
NegotiatedMaxFrameSize ==
    IF out # <<>> /\ out[1].frame_type = "AgentHello"
    THEN Some(item_of(out[1], str_max_frame_size))
    ELSE None

\* C21: serializing a frame never yields bytes whose frame length exceeds
\* the max-frame-size negotiated in the handshake: every frame written after
\* the AgentHello has a frame_length of at most the max-frame-size that the
\* AgentHello carries.
C21_FrameWithinMaxSize ==
    NegotiatedMaxFrameSize.some =>
        \A j \in 2..Len(out) :
            ~NumLt(NegotiatedMaxFrameSize.v, U64(frame_length_of(out[j])))

\* agent_tcp.rs agreed on a max-frame-size of 16 and then wrote the Ack of a
\* Notify, a frame longer than 16 bytes
C21_AckTooLarge ==
    /\ agent = "tcp"
    /\ sent = <<HelloSmall, NotifyLog>>
    /\ Len(out) = 2
    /\ NegotiatedMaxFrameSize = Some(U64(SmallMaxFrameSize))
    /\ out[2].frame_type = "Ack"
    /\ frame_length_of(out[2]) > SmallMaxFrameSize


\* the frame_length that the first four bytes of the input announce
declared_length(input) == ToNat(U32FromBeBytes(SubSeq(input, 1, 4)))

\* C22: when SpopCodec::decode reports 'need more bytes' (Ok(None)) the
\* input buffer is left unchanged; the buffer is advanced only on a
\* successful decode, and then by exactly 4 + frame_length bytes.
C22_BufferPreserved ==
    cpc = "decoded" =>
        /\ cres.decoded.tag # "Some" => cres.decoded.src = cbytes
        /\ cres.decoded.tag = "Some" =>
               cres.decoded.src = Tail2(cbytes, 4 + declared_length(cbytes))

\* a frame of the peer with the first five bytes of the next frame behind
\* it was decoded: the five bytes are what is left in the buffer
C22_FollowingBytesLeft ==
    /\ cin = NotifyLog
    /\ cpc = "decoded" /\ cres.from = "more"
    /\ Len(cbytes) = FrameLen[NotifyLog] + 5
    /\ cres.decoded.tag = "Some" /\ cres.decoded.frame = NotifyLog
    /\ cres.decoded.src = SubSeq(peer_frame(NotifyScore), 1, 5)


\* the bytes end before the varint terminates: they are empty, or a first
\* byte >= 240 is followed by nothing or only by bytes >= 128
TruncatedVarint(bytes) ==
    \/ bytes = <<>>
    \/ bytes[1] >= 240 /\ \A i \in 2..Len(bytes) : bytes[i] >= 128

\* C23: decoding a byte sequence that ends before the varint terminates
\* fails with the resumable 'need more' outcome, in lib::decode_varint as in
\* the parser's parse_varint: both return Incomplete.
C23_TruncatedNeedsMore ==
    (cpc = "decoded" /\ cin.kind = "bytes" /\ TruncatedVarint(cbytes)) =>
        /\ cres.lib = Incomplete
        /\ cres.parser = Incomplete

\* the single byte 240 was decoded: parse_varint asks for more bytes,
\* decode_varint returns the error Eof
C23_LibReturnsEof ==
    /\ cin = [kind |-> "bytes", x |-> <<240>>]
    /\ cpc = "decoded"
    /\ cres.parser = Incomplete
    /\ cres.lib = Error("Eof")


\* more than 10 bytes come without a terminating byte: a first byte >= 240
\* and at least ten bytes >= 128 behind it
OverlongVarint(bytes) ==
    /\ Len(bytes) >= 11
    /\ bytes[1] >= 240
    /\ \A i \in 2..11 : bytes[i] >= 128

\* C24: the varint decoder fails with an Overflow error as soon as more than
\* 10 bytes have been read without a terminating byte: on such bytes both
\* decode_varint and parse_varint return an error; neither reads on,
\* panics on a shift of 64 bits or more, or returns a wrapped value.
C24_OverlongIsError ==
    (cpc = "decoded" /\ cin.kind = "bytes" /\ OverlongVarint(cbytes)) =>
        /\ cres.lib.tag \in {"Error", "Failure"}
        /\ cres.parser.tag \in {"Error", "Failure"}

\* a release build decoded F0, eleven bytes 80 and the terminating byte 01,
\* thirteen bytes: the last three bytes were shifted by 67, 74 and 81 bits,
\* taken modulo 64, and both decoders returned a value
C24_WrappedValue ==
    /\ profile = "release"
    /\ cin = [kind |-> "bytes", x |-> <<240>> \o [i \in 1..11 |-> 128] \o <<1>>]
    /\ cpc = "decoded"
    /\ cres.lib.tag = "Ok" /\ cres.lib.rest = <<>>
    /\ cres.parser = cres.lib


\* the bytes of the six frame types
KnownTypeBytes == {to_u8(t) : t \in FrameTypes}

\* C25: FrameType::from_u8 maps exactly the bytes 1, 2, 3, 101, 102 and 103
\* to frame types and is the inverse of to_u8 on them; parse_frame fails
\* with the unknown-frame-type error for a complete frame carrying any
\* other type byte, and for none of these six.
C25_UnknownTypeOnly ==
    /\ KnownTypeBytes = {1, 2, 3, 101, 102, 103}
    /\ \A b \in 0..255 : from_u8(b).tag = "Ok" <=> b \in KnownTypeBytes
    /\ \A t \in FrameTypes : from_u8(to_u8(t)) = [tag |-> "Ok", value |-> t]
    /\ (cpc = "decoded" /\ cres.from = "retyped") =>
           (cres.parsed = Failure("Tag") <=> cbytes[5] \notin KnownTypeBytes)

\* a complete frame with the type byte 103, Ack, was decoded: parse_frame
\* failed with the error it returns for an unknown type
C25_AckTypeUnknown ==
    /\ cin = HelloPlain
    /\ cpc = "decoded" /\ cres.from = "retyped"
    /\ cbytes[5] = to_u8("Ack")
    /\ from_u8(cbytes[5]).tag = "Ok"
    /\ cres.parsed = Failure("Tag")
    /\ cres.decoded.tag = "Err"


\* the item is a String that holds a non-empty list of versions
IsVersionList(item) ==
    /\ item.some /\ item.v.t = "String"
    /\ supported_versions_of(item.v.v).tag = "Ok"
    /\ supported_versions_of(item.v.v).value # <<>>

\* the item is a UInt32 of at least 256
IsFrameSize(item) ==
    item.some /\ item.v.t = "UInt32" /\ NumGe(item.v.v, U64(MIN_FRAME_SIZE))

\* C26: converting a KV-list payload into a HaproxyHello succeeds only when
\* supported-versions is a String holding a non-empty list of versions,
\* max-frame-size is a UInt32 of at least 256 and capabilities is a String;
\* healthcheck and engine-id may be absent: try_from returns Ok exactly for
\* the payloads whose three required items are of that kind.
C26_HelloRequiredKeys ==
    (cpc = "converted" /\ cin.kind = "payload") =>
        (cres.tag = "Ok" <=>
            /\ IsVersionList(kv_get(cin.x.items, str_supported_versions))
            /\ IsFrameSize(kv_get(cin.x.items, str_max_frame_size))
            /\ kv_get(cin.x.items, str_capabilities).some
            /\ kv_get(cin.x.items, str_capabilities).v.t = "String")

\* a payload with max-frame-size 255 was converted into a HaproxyHello
C26_SmallFrameSizeAccepted ==
    /\ cpc = "converted"
    /\ cin.x = KVList(collect(<< <<str_supported_versions, String(str_2_0)>>,
                                 <<str_max_frame_size, UInt32(U64(MIN_FRAME_SIZE - 1))>>,
                                 <<str_capabilities, String(<<>>)>> >>))
    /\ cres.tag = "Ok"
    /\ cres.value.max_frame_size = U64(MIN_FRAME_SIZE - 1)
    /\ cres.value.healthcheck = None /\ cres.value.engine_id = None


\* the capability names held by a capabilities string
CapabilitySet(v) == {capabilities_of(v)[k] : k \in 1..Len(capabilities_of(v))}

\* C27: the capabilities written in an AgentHello are among those the
\* HaproxyHello offered: pipelining is in the reply only when the received
\* HaproxyHello listed it
C27_CapabilitiesIntersect ==
    \A i \in 1..Len(log) :
        (IsHello(log[i].frame) /\ Answered(i) /\ Answer(i).frame_type = "AgentHello")
            => CapabilitySet(item_of(Answer(i), str_capabilities))
                   \subseteq CapabilitySet(item_of(log[i].frame, str_capabilities))

\* a HaproxyHello that offered no capability was answered by an AgentHello
\* that lists pipelining
C27_PipeliningNotOffered ==
    /\ Len(log) >= 1 /\ log[1].frame = HelloPlain /\ Answered(1)
    /\ Answer(1).frame_type = "AgentHello"
    /\ "Pipelining" \in CapabilitySet(item_of(Answer(1), str_capabilities))


\* C28: the payload of a Notify is parsed as messages repeated until the end
\* of the frame, each a name, one byte nb_args and nb_args key/value pairs,
\* with no message count and no message length before them; an empty payload
\* parses to an empty list of messages
C28_MessagesUntilEnd ==
    (cpc = "decoded" /\ cres.from = "listed")
        => /\ cres.parsed.tag = "Ok"
           /\ cres.parsed.value.payload.kind = "ListOfMessages"
           /\ Len(cres.parsed.value.payload.items) = Len(cin.payload.items)
           /\ \A k \in 1..Len(cin.payload.items) :
                  /\ cres.parsed.value.payload.items[k].name = cin.payload.items[k].name
                  /\ Len(cres.parsed.value.payload.items[k].args) = Len(cin.payload.items[k].args)

\* a Notify with an empty payload was not parsed: the parser waits for the
\* four bytes of a message count
C28_EmptyPayloadNeedsMore ==
    /\ cpc = "decoded" /\ cres.from = "listed"
    /\ cin.payload.items = <<>>
    /\ cres.parsed.tag = "Incomplete"


\* actions.rs: ACTION-SET-VAR as <1><3><VAR-SCOPE><VAR-NAME><VAR-VALUE> with
\* the value as typed data, ACTION-UNSET-VAR as <2><2><VAR-SCOPE><VAR-NAME>
action_layout(action) ==
    IF action.a = "SetVar"
    THEN <<1, 3, scope_to_u8(action.scope)>> \o peer_string(action.name) \o to_bytes(action.value)
    ELSE <<2, 2, scope_to_u8(action.scope)>> \o peer_string(action.name)

RECURSIVE actions_layout(_)
actions_layout(actions) ==
    IF actions = <<>> THEN <<>>
    ELSE action_layout(Head(actions)) \o actions_layout(Tail(actions))

\* C29: serializing an Ack built with Ack::new, set_var and unset_var always
\* returns bytes, and the bytes hold the actions in the order they were added:
\* a set-var as 01 03 scope name and the whole typed data of its value, for
\* every variant of TypedData, an unset-var as 02 02 scope name, in every scope
C29_AckActionsWritten ==
    (cpc \in {"encoded", "panic"} /\ cin.frame_type = "Ack")
        => /\ cpc = "encoded"
           /\ SubSeq(cbytes, 5 + HeaderLen(cin), Len(cbytes)) = actions_layout(cin.payload.items)

\* the Ack whose one action is an unset-var was not serialized: the
\* serializer panicked
C29_UnsetVarPanics ==
    /\ cpc = "panic"
    /\ cin.frame_type = "Ack"
    /\ Len(cin.payload.items) = 1
    /\ cin.payload.items[1].a = "UnSetVar"


\* what the decoder that reads the header byte of the bytes returned:
\* typed_data for a type in the low nibble, parse_typed_data for the high one
WideDecoded == IF Head(cbytes) < 16 THEN cres.typed ELSE cres.parsed

\* C30: decoding an Int32 or UInt32 never fails on the size of its varint
\* body: a body of 2^32 or more decodes to its low 32 bits, so distinct
\* integers on the wire decode to the same TypedData
C30_Low32Bits ==
    (cpc = "decoded" /\ cin.kind = "wide")
        => /\ WideDecoded.tag = "Ok"
           /\ WideDecoded.rest = <<>>
           /\ WideDecoded.value = [t |-> cin.x.t, v |-> AsU32(cin.x.v)]

\* the UInt32 sent as 2^32 + 300 was decoded as UInt32(300)
C30_WideDecodedSmall ==
    /\ cpc = "decoded" /\ cin.kind = "wide"
    /\ cin.x = [t |-> "UInt32", v |-> <<44, 1, 0, 0, 1, 0, 0, 0>>]
    /\ WideDecoded.tag = "Ok"
    /\ WideDecoded.value = UInt32(U64(300))

=============================================================================
